---- MODULE Spec2Model ----
(***************************************************************************)
(* DJ-AI web API: the playlist store (api/database/playlist_database) and  *)
(* the playlist routes (api/routers/playlist_router) as a state machine    *)
(* over the two tables users.playlist and users.playlist_track.            *)
(***************************************************************************)
EXTENDS Integers, Sequences, FiniteSets, TLC

(***************************************************************************)
(* Bounds of the model.                                                    *)
(***************************************************************************)
MaxPlaylists == 2   \* playlist ids ever generated
MaxRows == 4        \* playlist_track ids ever generated (SpecOrder)
MaxAddRows == 3     \* playlist_track ids ever generated (SpecAdd)
MaxRouteRows == 2   \* playlist_track ids ever generated (Spec)
MaxUserRows == 2    \* playlist_track ids ever generated (SpecUser)
MaxCalls == 2       \* calls of start_background_training
MaxAttempts == 2    \* largest max_attempts of a call
MaxCsvRows == 3     \* rows of dataset/tracks.csv (SpecPredict)
MaxTopK == 3        \* largest top_k of a request
MaxTicks == 3       \* single ticks of the clock counted at each end (SpecToken)
MaxRuns == 2        \* runs of the analyzer
MaxRetries == 3     \* runs of the analyzer while days pass (SpecRetry)
MaxAddingRows == 4  \* playlist_track ids ever generated (SpecAdding)
MaxTracklist == 3   \* entries of a tracklist (SpecExport)
MaxExports == 2     \* runs of the exporter (SpecExport)
MaxEndRows == 3     \* playlist_track ids ever generated (SpecEnds)
MaxDays == 8        \* days that pass between runs of the analyzer (SpecRetry)

(***************************************************************************)
(* Decimal numbers.  sort_key is NUMERIC(20, 10); Python computes on       *)
(* Decimal / float values.  A number is six limbs of five decimal digits   *)
(*   <<ov, ih, il, f1, f2, f3>>                                            *)
(* standing for ov*10^10 + ih*10^5 + il + f1*10^-5 + f2*10^-10 + f3*10^-15 *)
(* with ov signed and the other limbs in 0..Base-1 (floor representation), *)
(* so 1500 is <<0,0,1500,0,0,0>> and -1000 is <<-1,99999,99000,0,0,0>>.    *)
(***************************************************************************)
Base == 100000
NLimbs == 6

RECURSIVE CarryFrom(_, _)
CarryFrom(s, i) ==
    IF i = 1 THEN s
    ELSE CarryFrom([s EXCEPT ![i] = s[i] % Base,
                             ![i-1] = s[i-1] + (s[i] \div Base)], i - 1)

Carry(s) == CarryFrom(s, NLimbs)

\* the integer i as a decimal number
Dec(i) == Carry(<<0, 0, i, 0, 0, 0>>)

DecAdd(a, b) ==
    Carry(<<a[1] + b[1], a[2] + b[2], a[3] + b[3], a[4] + b[4], a[5] + b[5], a[6] + b[6]>>)
DecSub(a, b) ==
    Carry(<<a[1] - b[1], a[2] - b[2], a[3] - b[3], a[4] - b[4], a[5] - b[5], a[6] - b[6]>>)

RECURSIVE LexLess(_, _, _)
LexLess(a, b, i) ==
    IF i > NLimbs THEN FALSE
    ELSE IF a[i] # b[i] THEN a[i] < b[i]
    ELSE LexLess(a, b, i + 1)

DecLess(a, b) == LexLess(a, b, 1)
DecLeq(a, b) == ~DecLess(b, a)

RECURSIVE HalfFrom(_, _, _)
HalfFrom(s, i, rem) ==
    IF i > NLimbs THEN s
    ELSE LET v == rem * Base + s[i]
         IN  HalfFrom([s EXCEPT ![i] = v \div 2], i + 1, v % 2)

\* x / 2 (exact for every x with at most 14 decimals)
DecHalf(x) == HalfFrom(x, 1, 0)

\* Storing x in a NUMERIC(20, 10) column: round to 10 decimals, ties away
\* from zero.
NumericRound(x) ==
    LET up == IF x[1] < 0 THEN x[6] > Base \div 2 ELSE x[6] >= Base \div 2
        q  == [x EXCEPT ![6] = 0]
    IN  IF up THEN Carry([q EXCEPT ![5] = q[5] + 1]) ELSE q

\* NUMERIC(20, 10) holds |x| < 10^10; anything else is "numeric field overflow".
NumericFits(x) ==
    \/ x[1] = 0
    \/ x[1] = -1 /\ \E i \in 2..NLimbs : x[i] # 0

(***************************************************************************)
(* Configuration (api/config/config.py).                                   *)
(***************************************************************************)
PLAYLIST_SORT_GAP == 1000
PLAYLIST_MIN_GAP == <<0, 0, 0, 0, 10000, 0>>     \* 0.000001
OverflowLimit == <<1, 0, 0, 0, 0, 0>>            \* 1e10

(***************************************************************************)
(* Identifiers and request inputs.                                         *)
(***************************************************************************)
UserIds == {"u1", "u2"}                 \* users.users rows (user_id)
YoutubeIds == {"y1", "y2"}              \* ids a client may send
Dataset == {"y1"}                       \* ids found in dataset/dataset.json
TracksCsv == {"y1"}                     \* ids found in dataset/tracks.csv
PlaylistIds == 1..MaxPlaylists

\* What the access_token cookie of a request holds: nothing, a token that
\* jwt.decode turns down (expired, or not verifying), or a valid token of a
\* user.
Credentials == {"none", "invalid"} \cup UserIds

\* What a client may send to /user/register.  The names agree on their
\* first 8 characters once sanitised.
Usernames == {"deejay_a1", "DeeJay-A1", "deejay_a2"}
Emails == {"m1", "m2"}
RandomParts == {1, 2}                   \* the 8 random characters of a user_id

VARIABLES
    playlist,        \* table users.playlist: rows [playlist_id, user_id, public]
    playlist_track,  \* table users.playlist_track
    playlistIds,     \* number of playlist_id values generated so far
    rowIds,          \* number of playlist_track_id values generated so far
    response,        \* the last request and what was answered to it
    appendOnly,      \* playlists whose rows all come from add_track_to_end
    users,           \* table users.users: rows [user_id, username, email, password, role_id]
    profiles,        \* table users.profiles: rows [user_id]
    tracks_csv,      \* dataset/tracks.csv: [exists, rows]
    model_file,      \* models/transition_model.joblib: [exists, proba]
    _ready,          \* PredictionModel._ready
    _state,          \* PredictionModel._state
    _predictor,      \* PredictionModel._predictor: [loaded, tracks, proba]
    _training_thread,\* PredictionModel._training_thread: a thread id, 0 for None
    threads,         \* the threading.Thread objects created, by id
    threadIds,       \* number of Thread objects created so far
    starting,        \* the callers of start_background_training, by position
    calls,           \* number of calls of start_background_training begun
    request,         \* the request to /prediction being served
    predResponse,    \* the last answer of a /prediction route
    now,             \* datetime.now(timezone.utc), in ticks
    access_token,    \* the access_token cookie of the client
    issued,          \* the last call of create_access_token: [data, at, token]
    decoded,         \* the last answer of require_token: [at, token, issued, answer]
    pepper,          \* PEPPER of the environment
    refresh_token,   \* the refresh_token cookie of the client
    authResponse,    \* the last answer of an account or auth operation
    registering,     \* the /user/register requests being served, by client
    dataset_json,    \* dataset/dataset.json: the tracklists of the mixes
    csv_path,        \* dataset/tracks.csv as the analyzer writes it: [exists, lines]
    cache_path,      \* dataset/failed_videos.json: [exists, entries]
    tmp,             \* the ids whose excerpt <id>_cut.wav is in TMP_DIR
    today,           \* datetime.now() of the analyzer, in days
    download_q,      \* pipeline.download_q
    unfinished_tasks,\* download_q.unfinished_tasks
    analyze_q,       \* pipeline.analyze_q
    result_q,        \* pipeline.result_q
    failure_q,       \* pipeline.failure_q of the main process
    worker_failure_q,\* pipeline.failure_q of the pool's worker processes
    pool,            \* the tasks given to the pool and not yet run
    pipe,            \* where main and the threads of a run stand
    download,        \* locals of download_worker: [vid, error_count, error_msg],
                     \* and error_of, the id whose attempt assigned error_msg
    existing_ids,    \* local of writer_worker
    analyze_bar,     \* writer_worker: [results, n]: len(results) and the progress bar
    failed_cache,    \* local of failure_writer
    runs,            \* number of runs of main() begun
    video_ids,       \* the queue of the run
    attempted,       \* how often the run began to download each id
    failures,        \* the failures of the run: [video_id, error_msg]
    track_searcher,  \* the TrackSearcher of search_router: [tracks]
    redis,           \* the keys of the Redis database: [present, value, expires]
    searched,        \* the last call of search_track and its answer
    adding,          \* the calls of add_track_to_end / add_track_to_start being
                     \* served, by connection: [pc, call, playlist_id, row, seen, id]
    cache_db,        \* the keys of the Redis database of a RedisHandler, as bytes
    cache_call,      \* the last call of RedisHandler.set or get and its answer
    transitions_csv  \* dataset/transitions.csv: [exists, lines]

userVars == <<users, profiles>>

storeVars == <<playlist, playlist_track, playlistIds, rowIds, response, appendOnly>>

serviceVars == <<tracks_csv, model_file, _ready, _state, _predictor, _training_thread,
                 threads, threadIds, starting, calls>>

clientVars == <<request, predResponse>>

jwtVars == <<now, access_token, issued, decoded>>

authVars == <<pepper, refresh_token, authResponse, registering>>

pipeVars == <<dataset_json, csv_path, cache_path, tmp, today, download_q,
              unfinished_tasks, analyze_q, result_q, failure_q, worker_failure_q,
              pool, pipe, download, existing_ids, analyze_bar, failed_cache, runs,
              video_ids, attempted, failures>>

searchVars == <<track_searcher, redis, searched>>

addVars == <<adding>>

cacheVars == <<cache_db, cache_call>>

exportVars == <<transitions_csv>>

vars == <<playlist, playlist_track, playlistIds, rowIds, response, appendOnly,
          users, profiles, tracks_csv, model_file, _ready, _state, _predictor,
          _training_thread, threads, threadIds, starting, calls, request,
          predResponse, now, access_token, issued, decoded, pepper, refresh_token,
          authResponse, registering, dataset_json, csv_path, cache_path, tmp, today,
          download_q, unfinished_tasks, analyze_q, result_q, failure_q,
          worker_failure_q, pool, pipe, download, existing_ids, analyze_bar,
          failed_cache, runs, video_ids, attempted, failures, track_searcher, redis,
          searched, adding, cache_db, cache_call, transitions_csv>>

\* what the playlist routes leave alone
NotPlaylist == <<userVars, serviceVars, clientVars, jwtVars, authVars, pipeVars,
                 searchVars, addVars, cacheVars, exportVars>>

\* what the user routes leave alone besides the playlist tables
NotUser == <<serviceVars, clientVars, jwtVars, authVars, pipeVars, searchVars, addVars,
             cacheVars, exportVars>>

\* what the prediction service and its routes leave alone
NotPrediction == <<storeVars, userVars, jwtVars, authVars, pipeVars, searchVars,
                 addVars, cacheVars, exportVars>>

\* what the token service leaves alone
NotJWT == <<storeVars, userVars, serviceVars, clientVars, authVars, pipeVars,
            searchVars, addVars, cacheVars, exportVars>>

(***************************************************************************)
(* api/utils/track_metadata.py                                             *)
(***************************************************************************)
get_track_metadata(youtube_id) ==
    [title |-> IF youtube_id \in Dataset THEN "title" ELSE "NULL",
     bpm   |-> IF youtube_id \in TracksCsv THEN "bpm" ELSE "NULL"]

(***************************************************************************)
(* api/database/playlist_database/playlist_database.py                     *)
(* Every operation takes the tables and yields the set of its possible     *)
(* outcomes [tracks, ret]; ret is "true", "false", "none" or "raise".      *)
(***************************************************************************)
PlaylistRows(T, p) == {r \in T : r.playlist_id = p}

SortKeys(rows) == {r.sort_key : r \in rows}

MaxSort(rows) == CHOOSE k \in SortKeys(rows) : \A k2 \in SortKeys(rows) : DecLeq(k2, k)
MinSort(rows) == CHOOSE k \in SortKeys(rows) : \A k2 \in SortKeys(rows) : DecLeq(k, k2)

\* row_number() OVER (PARTITION BY playlist_id ORDER BY sort_key): every
\* numbering 1..n of the rows that respects sort_key; rows with equal keys
\* are numbered in either order.
RowNumbers(rows) ==
    LET ids == {r.playlist_track_id : r \in rows}
    IN  {rn \in [ids -> 1..Cardinality(ids)] :
            /\ \A a, b \in ids : a # b => rn[a] # rn[b]
            /\ \A a, b \in rows : DecLess(a.sort_key, b.sort_key)
                    => rn[a.playlist_track_id] < rn[b.playlist_track_id]}

\* mutant: row numbers counted from 0
RebalanceWith_zero(T, p, rn) ==
    {IF r.playlist_id = p
        THEN [r EXCEPT !.sort_key =
                 NumericRound(Dec((rn[r.playlist_track_id] - 1) * PLAYLIST_SORT_GAP))]
        ELSE r : r \in T}

RebalanceWith(T, p, rn) ==
    {IF r.playlist_id = p
        THEN [r EXCEPT !.sort_key =
                 NumericRound(Dec(rn[r.playlist_track_id] * PLAYLIST_SORT_GAP))]
        ELSE r : r \in T}

_rebalance(T, p) == {RebalanceWith(T, p, rn) : rn \in RowNumbers(PlaylistRows(T, p))}

\* mutant: a public playlist may be modified by anyone
user_modify_allowed_public(P, p, u) ==
    \E r \in P : r.playlist_id = p /\ (r.user_id = u \/ r.public)

user_modify_allowed(P, p, u) == \E r \in P : r.playlist_id = p /\ r.user_id = u

\* mutant: the public column is not looked at
is_playlist_public_exists(P, p) == \E r \in P : r.playlist_id = p

is_playlist_public(P, p) == \E r \in P : r.playlist_id = p /\ r.public

get_playlist_by_id(P, p) == {r \in P : r.playlist_id = p}

\* INSERT INTO playlist_track ... ; commit.  T0 is the table before the
\* transaction, T1 the table the transaction has produced so far.  The
\* insert raises on a playlist_id without playlist row (foreign key) and on
\* a sort_key outside NUMERIC(20, 10); the transaction is then not committed.
InsertTrack(T0, T1, P, p, youtube_id, new_sort, id) ==
    LET metadata == get_track_metadata(youtube_id)
        key == NumericRound(new_sort)
    IN  IF (\A r \in P : r.playlist_id # p) \/ ~NumericFits(key)
        THEN [tracks |-> T0, ret |-> "raise"]
        ELSE [tracks |-> T1 \cup {[playlist_track_id |-> id,
                                   playlist_id |-> p,
                                   youtube_track_id |-> youtube_id,
                                   title |-> metadata.title,
                                   bpm |-> metadata.bpm,
                                   sort_key |-> key]},
              ret |-> "true"]

\* mutant: the first sort key is read instead of the last (ORDER BY ... ASC)
add_track_to_end_asc(T, P, p, youtube_id, id) ==
    LET rows == PlaylistRows(T, p)
        gap == Dec(PLAYLIST_SORT_GAP)
    IN  IF rows # {}
        THEN IF DecLess(OverflowLimit, DecAdd(MinSort(rows), gap))
             THEN {InsertTrack(T, T1, P, p, youtube_id,
                               DecAdd(MinSort(PlaylistRows(T1, p)), gap), id)
                      : T1 \in _rebalance(T, p)}
             ELSE {InsertTrack(T, T, P, p, youtube_id, DecAdd(MinSort(rows), gap), id)}
        ELSE {InsertTrack(T, T, P, p, youtube_id, gap, id)}

add_track_to_end(T, P, p, youtube_id, id) ==
    LET rows == PlaylistRows(T, p)
        gap == Dec(PLAYLIST_SORT_GAP)
    IN  IF rows # {}
        THEN IF DecLess(OverflowLimit, DecAdd(MaxSort(rows), gap))
             THEN {InsertTrack(T, T1, P, p, youtube_id,
                               DecAdd(MaxSort(PlaylistRows(T1, p)), gap), id)
                      : T1 \in _rebalance(T, p)}
             ELSE {InsertTrack(T, T, P, p, youtube_id, DecAdd(MaxSort(rows), gap), id)}
        ELSE {InsertTrack(T, T, P, p, youtube_id, gap, id)}

\* mutant: half the first sort key is stored however small it is
add_track_to_start_small(T, P, p, youtube_id, id) ==
    LET rows == PlaylistRows(T, p)
    IN  IF rows # {}
        THEN {InsertTrack(T, T, P, p, youtube_id, DecHalf(MinSort(rows)), id)}
        ELSE {InsertTrack(T, T, P, p, youtube_id, Dec(PLAYLIST_SORT_GAP), id)}

add_track_to_start(T, P, p, youtube_id, id) ==
    LET rows == PlaylistRows(T, p)
    IN  IF rows # {}
        THEN IF DecLess(DecHalf(MinSort(rows)), PLAYLIST_MIN_GAP)
             THEN {InsertTrack(T, T1, P, p, youtube_id,
                               DecHalf(MinSort(PlaylistRows(T1, p))), id)
                      : T1 \in _rebalance(T, p)}
             ELSE {InsertTrack(T, T, P, p, youtube_id, DecHalf(MinSort(rows)), id)}
        ELSE {InsertTrack(T, T, P, p, youtube_id, Dec(PLAYLIST_SORT_GAP), id)}

\* The two statements of add_track_to_end and add_track_to_start, for
\* calls served on connections of their own.  Every statement reads the
\* rows committed when it runs (READ COMMITTED); the insert is committed
\* with the statement.
Connections == {1, 2}

NoRow == [found |-> FALSE, sort_key |-> Dec(0)]
NotAdding == [pc |-> "idle", call |-> "-", playlist_id |-> 0, row |-> NoRow,
              seen |-> 0, id |-> 0]

\* SELECT sort_key ... ORDER BY sort_key DESC (ASC) LIMIT 1; cur.fetchone()
fetchone(T, p, call) ==
    LET rows == PlaylistRows(T, p)
    IN  IF rows = {} THEN NoRow
        ELSE [found |-> TRUE,
              sort_key |-> IF call = "add_track_to_end" THEN MaxSort(rows)
                           ELSE MinSort(rows)]

\* the key read again after a rebalance, or the default of the code
Again(T1, p, call, default) ==
    IF fetchone(T1, p, call).found THEN fetchone(T1, p, call).sort_key ELSE default

\* add_track_to_end from the row it read: the rebalance, the sort key, the
\* insert and the commit
add_track_to_end_insert(row, T, P, p, youtube_id, id) ==
    LET gap == Dec(PLAYLIST_SORT_GAP)
    IN  IF row.found
        THEN IF DecLess(OverflowLimit, DecAdd(row.sort_key, gap))
             THEN {InsertTrack(T, T1, P, p, youtube_id,
                               DecAdd(Again(T1, p, "add_track_to_end", Dec(0)), gap), id)
                      : T1 \in _rebalance(T, p)}
             ELSE {InsertTrack(T, T, P, p, youtube_id, DecAdd(row.sort_key, gap), id)}
        ELSE {InsertTrack(T, T, P, p, youtube_id, gap, id)}

\* add_track_to_start from the row it read
add_track_to_start_insert(row, T, P, p, youtube_id, id) ==
    IF row.found
    THEN IF DecLess(DecHalf(row.sort_key), PLAYLIST_MIN_GAP)
         THEN {InsertTrack(T, T1, P, p, youtube_id,
                           DecHalf(Again(T1, p, "add_track_to_start",
                                         Dec(PLAYLIST_SORT_GAP))), id)
                  : T1 \in _rebalance(T, p)}
         ELSE {InsertTrack(T, T, P, p, youtube_id, DecHalf(row.sort_key), id)}
    ELSE {InsertTrack(T, T, P, p, youtube_id, Dec(PLAYLIST_SORT_GAP), id)}

\* after a rebalance: the nearest key at or below prev_sort and the nearest
\* key at or above next_sort; both replace the arguments only if both exist
Resolve(T1, p, prev_sort, next_sort) ==
    LET below == {r \in PlaylistRows(T1, p) : DecLeq(r.sort_key, prev_sort)}
        above == {r \in PlaylistRows(T1, p) : DecLeq(next_sort, r.sort_key)}
    IN  IF below # {} /\ above # {}
        THEN <<MaxSort(below), MinSort(above)>>
        ELSE <<prev_sort, next_sort>>

\* mutant: the playlist is rebalanced before every insert
add_track_between_always(T, P, p, youtube_id, prev_sort, next_sort, id) ==
    {LET pn == Resolve(T1, p, prev_sort, next_sort)
     IN  InsertTrack(T, T1, P, p, youtube_id, DecHalf(DecAdd(pn[1], pn[2])), id)
        : T1 \in _rebalance(T, p)}

add_track_between(T, P, p, youtube_id, prev_sort, next_sort, id) ==
    IF DecLess(DecSub(next_sort, prev_sort), PLAYLIST_MIN_GAP)
    THEN {LET pn == Resolve(T1, p, prev_sort, next_sort)
          IN  InsertTrack(T, T1, P, p, youtube_id, DecHalf(DecAdd(pn[1], pn[2])), id)
             : T1 \in _rebalance(T, p)}
    ELSE {InsertTrack(T, T, P, p, youtube_id,
                      DecHalf(DecAdd(prev_sort, next_sort)), id)}

\* the rows listed by their row numbers 1..n
RECURSIVE Listed(_, _, _)
Listed(rows, rn, n) ==
    IF n = 0 THEN <<>>
    ELSE Append(Listed(rows, rn, n - 1), CHOOSE r \in rows : rn[r.playlist_track_id] = n)

\* ORDER BY sort_key ASC: every list of the rows that respects sort_key
get_tracks(T, p) ==
    LET rows == PlaylistRows(T, p)
    IN  {Listed(rows, rn, Cardinality(rows)) : rn \in RowNumbers(rows)}

\* mutant: the row is looked up by its id alone
delete_track_from_playlists_byid(T, playlist_track_id, p) ==
    LET hit == {r \in T : r.playlist_track_id = playlist_track_id}
    IN  [tracks |-> T \ hit, ret |-> IF hit # {} THEN "true" ELSE "false"]

delete_track_from_playlists(T, playlist_track_id, p) ==
    LET hit == {r \in T : r.playlist_track_id = playlist_track_id /\ r.playlist_id = p}
    IN  [tracks |-> T \ hit, ret |-> IF hit # {} THEN "true" ELSE "false"]

\* mutant: no follow-up existence check
PlaylistDatabase_delete_playlist_nocheck(P, T, p, u) ==
    IF user_modify_allowed(P, p, u)
    THEN [playlists |-> {r \in P : r.playlist_id # p},
          tracks |-> {r \in T : r.playlist_id # p}, ret |-> "true"]
    ELSE [playlists |-> P, tracks |-> T, ret |-> "false"]

\* DELETE FROM playlist WHERE playlist_id AND user_id; the rows of
\* playlist_track go with it (ON DELETE CASCADE)
PlaylistDatabase_delete_playlist(P, T, p, u) ==
    IF user_modify_allowed(P, p, u)
    THEN [playlists |-> {r \in P : r.playlist_id # p},
          tracks |-> {r \in T : r.playlist_id # p}, ret |-> "true"]
    ELSE [playlists |-> P, tracks |-> T,
          ret |-> IF \E r \in P : r.playlist_id = p THEN "false" ELSE "none"]

\* public is "none" (not supplied), "true" or "false"; named tells whether
\* any of name, description, tags is supplied
PlaylistDatabase_update_playlist(P, p, u, named, public) ==
    IF ~named /\ public = "none"
    THEN [playlists |-> P, ret |-> "false"]
    ELSE [playlists |-> {IF r.playlist_id = p /\ r.user_id = u /\ public # "none"
                            THEN [r EXCEPT !.public = (public = "true")]
                            ELSE r : r \in P},
          ret |-> IF user_modify_allowed(P, p, u) THEN "true" ELSE "false"]

(***************************************************************************)
(* api/database/user_database/user_database.py and                         *)
(* api/database/profile_database/profile_database.py.  Both databases are  *)
(* initialised: the tables and the trigger after_user_insert exist.        *)
(***************************************************************************)
\* re.sub(r"[^A-Za-z0-9_]", "", username).lower()
_sanitize_username(username) ==
    IF username = "DeeJay-A1" THEN "deejay_a1" ELSE username

\* username[:8].ljust(8, "X") + random_part: "u1" and "u2" stand for
\* "deejay_a" followed by the two random parts
_generate_user_id(username, random_part) ==
    IF random_part = 1 THEN "u1" ELSE "u2"

\* the value of PEPPER when the environment does not set it
NoPepper == "None"

\* PasswordHasher.hash with a fresh salt: the encoded hash holds the salt
\* and the digest of the peppered password under it
argon2_hash(peppered, salt) == [salt |-> salt, digest |-> <<peppered, salt>>]

\* PasswordHasher.verify: the digest is computed again with the salt of the
\* encoded hash; a mismatch raises
argon2_verify(hashed, peppered) == hashed.digest = <<peppered, hashed.salt>>

\* password + PEPPER
Peppered(password, PEPPER) == <<password, PEPPER>>

\* _hash_password: [raise, hash]
_hash_password(password, PEPPER, salt) ==
    IF PEPPER = NoPepper
    THEN [raise |-> "ValueError", hash |-> argon2_hash(<<"-", "-">>, 0)]
    ELSE [raise |-> "-", hash |-> argon2_hash(Peppered(password, PEPPER), salt)]

\* verify_password: [raise, valid]; what verify raises is caught
verify_password(hashed, password, PEPPER) ==
    IF PEPPER = NoPepper
    THEN [raise |-> "ValueError", valid |-> FALSE]
    ELSE [raise |-> "-", valid |-> argon2_verify(hashed, Peppered(password, PEPPER))]

\* trigger function create_user_profile: the profile row of a new user; the
\* set is empty when the insert violates the primary key of profiles
create_user_profile(Pf, user_id) ==
    IF \E r \in Pf : r.user_id = user_id THEN {} ELSE {Pf \cup {[user_id |-> user_id]}}

\* INSERT INTO users; the trigger inserts the profile in the same
\* transaction; a unique violation, of users or of profiles, rolls back
\* (role_id takes its default).  The password is hashed before the
\* try block: what _hash_password raises reaches the caller.
create_account(U, Pf, username, email, password, PEPPER, random_part, salt) ==
    LET sanitized_username == _sanitize_username(username)
        user_id == _generate_user_id(sanitized_username, random_part)
        hashed_password == _hash_password(password, PEPPER, salt)
    IN  IF hashed_password.raise # "-"
        THEN [users |-> U, profiles |-> Pf, ret |-> "raise"]
        ELSE
        IF \/ \E r \in U : \/ r.user_id = user_id
                            \/ r.username = sanitized_username
                            \/ r.email = email
           \/ create_user_profile(Pf, user_id) = {}
        THEN [users |-> U, profiles |-> Pf, ret |-> "false"]
        ELSE [users |-> U \cup {[user_id |-> user_id, username |-> sanitized_username,
                                 email |-> email, password |-> hashed_password.hash,
                                 role_id |-> 1]},
              profiles |-> CHOOSE Pf1 \in create_user_profile(Pf, user_id) : TRUE,
              ret |-> "true"]

\* mutant: the playlists of the user are kept
delete_user_keep(U, Pf, P, T, user_id) ==
    [users |-> {r \in U : r.user_id # user_id},
     profiles |-> {r \in Pf : r.user_id # user_id},
     playlists |-> P, tracks |-> T, ret |-> "true"]

\* DELETE FROM users WHERE user_id; ON DELETE CASCADE removes the profile,
\* the playlists of the user and, with them, their membership rows
delete_user(U, Pf, P, T, user_id) ==
    LET kept == {r \in P : r.user_id # user_id}
    IN  [users |-> {r \in U : r.user_id # user_id},
         profiles |-> {r \in Pf : r.user_id # user_id},
         playlists |-> kept,
         tracks |-> {r \in T : \E q \in kept : q.playlist_id = r.playlist_id},
         ret |-> "true"]

get_user_by_username(U, username) == {r \in U : r.username = _sanitize_username(username)}

get_user_by_email(U, email) == {r \in U : r.email = email}

(***************************************************************************)
(* api/models/playlist.py: PlayListAddTrackRequest.  A field of the JSON   *)
(* body is absent, null or a value; the field validator runs on the fields *)
(* the body supplies, not on a field left at its default.                  *)
(***************************************************************************)
Absent == [kind |-> "absent", val |-> Dec(0)]
Null == [kind |-> "null", val |-> Dec(0)]
Value(v) == [kind |-> "value", val |-> v]

validate_between_fields(position, field) ==
    ~(position = "between" /\ field.kind = "null")

PlayListAddTrackRequest(body) ==
    /\ body.position \in {"start", "end", "between"}
    /\ validate_between_fields(body.position, body.prev_sort)
    /\ validate_between_fields(body.position, body.next_sort)

IsNone(field) == field.kind # "value"

(***************************************************************************)
(* api/services/JWT/JWT_validator.py                                       *)
(***************************************************************************)
\* require_token: 401 unless the cookie holds a valid token
require_token(cred) == cred \in UserIds

\* optional_token: the payload's user_id, or "none"
optional_token(cred) == IF cred \in UserIds THEN cred ELSE "none"

(***************************************************************************)
(* api/services/JWT/JWT_handler.py and the token dependency of             *)
(* JWT_validator.py.  Time is counted in ticks of half a second, so that   *)
(* a token can be issued and presented between two whole seconds.          *)
(***************************************************************************)
TicksPerSecond == 2
ACCESS_TOKEN_EXPIRE_MINUTES == 30
JWT_SECRET == "secret"

\* timedelta(minutes=ACCESS_TOKEN_EXPIRE_MINUTES), in ticks
Lifetime == TicksPerSecond * 60 * ACCESS_TOKEN_EXPIRE_MINUTES

\* the user_payload that the login and refresh routes hand to issue_tokens
TokenData ==
    {[user_id |-> "u1", username |-> "deejay_a1", role_id |-> 1],
     [user_id |-> "u2", username |-> "deejay_a2", role_id |-> 2]}

NoToken == [payload |-> [user_id |-> "-", username |-> "-", role_id |-> 0, exp |-> 0],
            signature |-> [user_id |-> "-", username |-> "-", role_id |-> 0, exp |-> 0,
                           key |-> "-"]]

\* the HS256 signature of a payload under a key: it verifies for this
\* payload and this key only
Sign(payload, key) ==
    [user_id |-> payload.user_id, username |-> payload.username,
     role_id |-> payload.role_id, exp |-> payload.exp, key |-> key]

\* jwt.encode: a datetime exp claim is written as whole seconds
jwt_encode(payload, key) ==
    LET claims == [payload EXCEPT !.exp = payload.exp \div TicksPerSecond]
    IN  [payload |-> claims, signature |-> Sign(claims, key)]

\* JWTHandler.create_access_token at the instant at
create_access_token(data, at) ==
    LET expire == at + Lifetime
        payload == [user_id |-> data.user_id, username |-> data.username,
                    role_id |-> data.role_id, exp |-> expire]
    IN  jwt_encode(payload, JWT_SECRET)

\* mutant: a token still decodes at the instant of its exp claim
jwt_decode_late(token, key, at) ==
    IF token.signature # Sign(token.payload, key)
    THEN [raise |-> "InvalidSignatureError", payload |-> NoToken.payload]
    ELSE IF token.payload.exp * TicksPerSecond < at
    THEN [raise |-> "ExpiredSignatureError", payload |-> NoToken.payload]
    ELSE [raise |-> "-", payload |-> token.payload]

\* jwt.decode: the signature is verified first, then the exp claim
jwt_decode(token, key, at) ==
    IF token.signature # Sign(token.payload, key)
    THEN [raise |-> "InvalidSignatureError", payload |-> NoToken.payload]
    ELSE IF token.payload.exp * TicksPerSecond <= at
    THEN [raise |-> "ExpiredSignatureError", payload |-> NoToken.payload]
    ELSE [raise |-> "-", payload |-> token.payload]

\* JWTHandler.decode_token: both failures are re-raised to the caller
decode_token(token, at) == jwt_decode(token, JWT_SECRET, at)

\* InvalidSignatureError is a subclass of InvalidTokenError
IsInvalidTokenError(raise) == raise \in {"InvalidSignatureError", "InvalidTokenError"}

\* require_token on the cookie of a request: the payload, or 401
require_token_cookie(cookie, at) ==
    IF cookie = NoToken
    THEN [status |-> 401, detail |-> "Missing access token", raise |-> "-",
          payload |-> NoToken.payload]
    ELSE LET out == decode_token(cookie, at)
         IN  IF out.raise = "ExpiredSignatureError"
             THEN [status |-> 401, detail |-> "Token expired", raise |-> out.raise,
                   payload |-> out.payload]
             ELSE IF IsInvalidTokenError(out.raise)
             THEN [status |-> 401, detail |-> "Invalid token", raise |-> out.raise,
                   payload |-> out.payload]
             ELSE [status |-> 200, detail |-> "-", raise |-> "-", payload |-> out.payload]

NoIssue == [data |-> [user_id |-> "-", username |-> "-", role_id |-> 0], at |-> 0,
            token |-> NoToken]

InitJWT ==
    /\ now = 0
    /\ access_token = NoToken
    /\ issued = NoIssue
    /\ decoded = [at |-> 0, token |-> NoToken, issued |-> NoIssue,
                  answer |-> require_token_cookie(NoToken, 0)]

\* issue_tokens: the access_token cookie is set
IssueToken ==
    /\ \E data \in TokenData :
          /\ access_token' = create_access_token(data, now)
          /\ issued' = [data |-> data, at |-> now,
                        token |-> create_access_token(data, now)]
    /\ UNCHANGED <<now, decoded>>

\* The client alters its cookie: another role, a later exp, or a token it
\* signed with a key of its own.
Tamper ==
    /\ access_token = issued.token
    /\ access_token # NoToken
    /\ \/ access_token' = [access_token EXCEPT !.payload.role_id = 3 - @]
       \/ access_token' = [access_token EXCEPT !.payload.exp = @ + 1]
       \/ access_token' = [access_token EXCEPT
                              !.signature = Sign(access_token.payload, "guess")]
    /\ UNCHANGED <<now, issued, decoded>>

\* Time passes: a tick, or all but a second of the lifetime of a token.
\* Single ticks are counted next to the start and next to the lifetime.
Elapse ==
    /\ \E d \in {1, Lifetime - TicksPerSecond} :
          /\ now + d <= Lifetime + MaxTicks
          /\ d = 1 => (now < MaxTicks \/ now >= Lifetime - TicksPerSecond)
          /\ now' = now + d
    /\ UNCHANGED <<access_token, issued, decoded>>

\* A request to a route that depends on require_token
Present ==
    /\ decoded' = [at |-> now, token |-> access_token, issued |-> issued,
                   answer |-> require_token_cookie(access_token, now)]
    /\ UNCHANGED <<now, access_token, issued>>

(***************************************************************************)
(* Accounts and sessions: authenticate_user and modify_user of             *)
(* user_database.py, the refresh token of JWT_handler.py, and the routes   *)
(* of auth_router.py and user_router.py that use them.                     *)
(***************************************************************************)
REFRESH_TOKEN_EXPIRE_DAYS == 7

\* timedelta(days=REFRESH_TOKEN_EXPIRE_DAYS), in ticks
RefreshLifetime == TicksPerSecond * 60 * 60 * 24 * REFRESH_TOKEN_EXPIRE_DAYS

Passwords == {"password1", "password2", "password3"}
Salts == {1, 2}                         \* the random salts of PasswordHasher.hash

\* mutant: the hash of the stored password is not looked at
authenticate_user_any(U, username, password, PEPPER) ==
    LET sanitized_username == _sanitize_username(username)
        result == {r \in U : r.username = sanitized_username}
    IN  [ret |-> result # {}, raise |-> "-"]

\* authenticate_user: [ret, raise]; every exception is caught
authenticate_user(U, username, password, PEPPER) ==
    LET sanitized_username == _sanitize_username(username)
        result == {r \in U : r.username = sanitized_username}
    IN  IF result = {}
        THEN [ret |-> FALSE, raise |-> "-"]
        ELSE LET stored_hashed_password == (CHOOSE r \in result : TRUE).password
                 verified == verify_password(stored_hashed_password, password, PEPPER)
             IN  IF verified.raise # "-"
                 THEN [ret |-> FALSE, raise |-> "-"]
                 ELSE [ret |-> verified.valid, raise |-> "-"]

get_user_by_id(U, user_id) == {r \in U : r.user_id = user_id}

\* mutant: the UPDATE is left out
modify_user_keep(U, user_id, new_password, PEPPER, salt) ==
    [users |-> U, ret |-> "true"]

\* modify_user with new_password (new_email is None): [users, ret]; an empty
\* new_password is no update; the UPDATE of a missing row succeeds
modify_user(U, user_id, new_password, PEPPER, salt) ==
    IF new_password = ""
    THEN [users |-> U, ret |-> "false"]
    ELSE LET hashed_password == _hash_password(new_password, PEPPER, salt)
         IN  IF hashed_password.raise # "-"
             THEN [users |-> U, ret |-> "raise"]
             ELSE [users |-> {IF r.user_id = user_id
                              THEN [r EXCEPT !.password = hashed_password.hash]
                              ELSE r : r \in U},
                   ret |-> "true"]

\* JWTHandler.create_refresh_token at the instant at: the payload holds the
\* user_id only ("-" and 0 stand for the claims it lacks)
create_refresh_token(data, at) ==
    LET expire == at + RefreshLifetime
        payload == [user_id |-> data.user_id, username |-> "-", role_id |-> 0,
                    exp |-> expire]
    IN  jwt_encode(payload, JWT_SECRET)

\* what an account or auth operation answered: op, the HTTP status (0 for a
\* call of the store), the detail, what the store returned, and the request
\* (user_id is the user the access token of the request names)
AuthAnswer(op, status, detail, ret, user_id, username, password, new_password) ==
    [op |-> op, status |-> status, detail |-> detail, ret |-> ret, user_id |-> user_id,
     username |-> username, password |-> password, new_password |-> new_password]

\* mutant: the user row is not looked up again
refresh_access_token_stale(cookie, U, at) ==
    IF cookie = NoToken
    THEN [status |-> 401, detail |-> "Missing refresh token", set |-> FALSE,
          token |-> NoToken]
    ELSE LET out == decode_token(cookie, at)
         IN  IF out.raise = "ExpiredSignatureError"
             THEN [status |-> 401, detail |-> "Refresh token expired", set |-> FALSE,
                   token |-> NoToken]
             ELSE IF IsInvalidTokenError(out.raise)
             THEN [status |-> 401, detail |-> "Invalid refresh token", set |-> FALSE,
                   token |-> NoToken]
             ELSE [status |-> 200, detail |-> "Token refreshed successfully",
                   set |-> TRUE,
                   token |-> create_access_token(
                                [user_id |-> out.payload.user_id,
                                 username |-> out.payload.username,
                                 role_id |-> out.payload.role_id], at)]

\* JWTHandler.refresh_access_token on the refresh_token cookie: the answer,
\* and the access_token cookie it sets
refresh_access_token(cookie, U, at) ==
    IF cookie = NoToken
    THEN [status |-> 401, detail |-> "Missing refresh token", set |-> FALSE,
          token |-> NoToken]
    ELSE LET out == decode_token(cookie, at)
             user_id == out.payload.user_id
             user_data == get_user_by_id(U, user_id)
         IN  IF out.raise = "ExpiredSignatureError"
             THEN [status |-> 401, detail |-> "Refresh token expired", set |-> FALSE,
                   token |-> NoToken]
             ELSE IF IsInvalidTokenError(out.raise)
             THEN [status |-> 401, detail |-> "Invalid refresh token", set |-> FALSE,
                   token |-> NoToken]
             ELSE IF user_id = "-"
             THEN [status |-> 401, detail |-> "Invalid refresh token payload",
                   set |-> FALSE, token |-> NoToken]
             ELSE IF user_data = {}
             THEN [status |-> 404, detail |-> "User not found", set |-> FALSE,
                   token |-> NoToken]
             ELSE LET row == CHOOSE r \in user_data : TRUE
                  IN  [status |-> 200, detail |-> "Token refreshed successfully",
                       set |-> TRUE,
                       token |-> create_access_token(
                                    [user_id |-> row.user_id, username |-> row.username,
                                     role_id |-> row.role_id], at)]

\* the environment, no cookie, no request
InitAuth(Peppers) ==
    /\ pepper \in Peppers
    /\ refresh_token = NoToken
    /\ authResponse = AuthAnswer("-", 0, "-", "-", "-", "-", "-", "-")
    /\ registering = [c \in {1, 2} |-> [pc |-> "idle", username |-> "-", email |-> "-"]]

\* POST /auth/login (the demo login is disabled)
login(username, password) ==
    LET authorized == authenticate_user(users, username, password, pepper)
        user_data == get_user_by_username(users, username)
    IN  IF ~authorized.ret
        THEN /\ authResponse' = AuthAnswer("login", 401, "Invalid credentials", "false",
                                           "-", username, password, "-")
             /\ UNCHANGED <<access_token, refresh_token, issued>>
        ELSE LET row == CHOOSE r \in user_data : TRUE
                 user_payload == [user_id |-> row.user_id, username |-> row.username,
                                  role_id |-> row.role_id]
             IN  /\ access_token' = create_access_token(user_payload, now)
                 /\ issued' = [data |-> user_payload, at |-> now,
                               token |-> create_access_token(user_payload, now)]
                 /\ refresh_token' = create_refresh_token(user_payload, now)
                 /\ authResponse' = AuthAnswer("login", 200, "success", "true",
                                               "-", username, password, "-")

\* POST /auth/logout
logout ==
    /\ access_token' = NoToken
    /\ refresh_token' = NoToken
    /\ authResponse' = AuthAnswer("logout", 200, "Logged out successfully", "-",
                                  "-", "-", "-", "-")
    /\ UNCHANGED issued

\* GET /auth/refresh
refresh_token_route ==
    LET out == refresh_access_token(refresh_token, users, now)
    IN  /\ authResponse' = AuthAnswer("refresh_token", out.status, out.detail, "-",
                                      "-", "-", "-", "-")
        /\ IF out.set
           THEN /\ access_token' = out.token
                /\ issued' = [data |-> [user_id |-> out.token.payload.user_id,
                                        username |-> out.token.payload.username,
                                        role_id |-> out.token.payload.role_id],
                              at |-> now, token |-> out.token]
           ELSE UNCHANGED <<access_token, issued>>
        /\ UNCHANGED refresh_token

\* POST /user/change-password with a token that names user_id
change_password(cred, current_password, new_password, salt) ==
    LET user_data == get_user_by_id(users, cred)
        answer(status, detail, ret) ==
            AuthAnswer("change_password", status, detail, ret, cred, "-",
                       current_password, new_password)
    IN  IF ~require_token(cred)
        THEN authResponse' = answer(401, "Missing access token", "-") /\ UNCHANGED users
        ELSE IF user_data = {}
        THEN authResponse' = answer(404, "User not found", "-") /\ UNCHANGED users
        ELSE IF ~authenticate_user(users, (CHOOSE r \in user_data : TRUE).username,
                                   current_password, pepper).ret
        THEN /\ authResponse' = answer(401, "Current password is incorrect", "-")
             /\ UNCHANGED users
        ELSE IF current_password = new_password
        THEN /\ authResponse' = answer(400,
                    "New password must be different from current password", "-")
             /\ UNCHANGED users
        ELSE LET out == modify_user(users, cred, new_password, pepper, salt)
             IN  /\ users' = out.users
                 /\ authResponse' =
                       IF out.ret = "true"
                       THEN answer(200, "Password changed successfully", out.ret)
                       ELSE answer(500, "Failed to update password", out.ret)

\* Calls of the user store: create_account, authenticate_user, delete_user
CreateAccount(Names, Mails, Pws, Parts, Ss) ==
    \E username \in Names, email \in Mails, password \in Pws, random_part \in Parts,
       salt \in Ss :
        LET out == create_account(users, profiles, username, email, password, pepper,
                                  random_part, salt)
        IN  /\ users' = out.users
            /\ profiles' = out.profiles
            /\ authResponse' = AuthAnswer("create_account", 0, "-", out.ret, "-",
                                          username, password, "-")

Authenticate(Names, Pws) ==
    \E username \in Names, password \in Pws :
        LET out == authenticate_user(users, username, password, pepper)
        IN  /\ authResponse' = AuthAnswer("authenticate_user", 0, out.raise,
                                          IF out.ret THEN "true" ELSE "false", "-",
                                          username, password, "-")
            /\ UNCHANGED <<users, profiles>>

DeleteUser(Ids) ==
    \E user_id \in Ids :
        LET out == delete_user(users, profiles, playlist, playlist_track, user_id)
        IN  /\ users' = out.users
            /\ profiles' = out.profiles
            /\ authResponse' = AuthAnswer("delete_user", 0, "-", out.ret, user_id,
                                          "-", "-", "-")

\* POST /user/register, line by line, for the client c.  The request reads
\* the username, then the email, then calls create_account; other requests
\* may be served between the reads and the call.
NotRegistering == [pc |-> "idle", username |-> "-", email |-> "-"]

registerAnswer(c, status, detail, ret) ==
    AuthAnswer("register_user", status, detail, ret, "-", registering[c].username,
               registering[c].email, "-")

register_begin(c, username, email) ==
    /\ registering[c].pc = "idle"
    /\ registering' = [registering EXCEPT ![c] =
                          [pc |-> "username?", username |-> username, email |-> email]]
    /\ UNCHANGED <<users, profiles, authResponse>>

register_username(c) ==
    /\ registering[c].pc = "username?"
    /\ IF get_user_by_username(users, registering[c].username) # {}
       THEN /\ authResponse' = registerAnswer(c, 400, "Username already exists", "-")
            /\ registering' = [registering EXCEPT ![c] = NotRegistering]
       ELSE /\ registering' = [registering EXCEPT ![c].pc = "email?"]
            /\ UNCHANGED authResponse
    /\ UNCHANGED <<users, profiles>>

register_email(c) ==
    /\ registering[c].pc = "email?"
    /\ IF get_user_by_email(users, registering[c].email) # {}
       THEN /\ authResponse' = registerAnswer(c, 400, "Email already registered", "-")
            /\ registering' = [registering EXCEPT ![c] = NotRegistering]
       ELSE /\ registering' = [registering EXCEPT ![c].pc = "create"]
            /\ UNCHANGED authResponse
    /\ UNCHANGED <<users, profiles>>

register_create(c, password, random_part, salt) ==
    /\ registering[c].pc = "create"
    /\ LET out == create_account(users, profiles, registering[c].username,
                                 registering[c].email, password, pepper, random_part, salt)
       IN  /\ users' = out.users
           /\ profiles' = out.profiles
           /\ authResponse' =
                 IF out.ret = "true"
                 THEN registerAnswer(c, 200, "User registered successfully", out.ret)
                 ELSE registerAnswer(c, 500, "Failed to create user", out.ret)
    /\ registering' = [registering EXCEPT ![c] = NotRegistering]

\* the register requests of the clients in Cs
Registering(Cs, Names, Mails, Parts) ==
    \E c \in Cs :
        \/ \E username \in Names, email \in Mails : register_begin(c, username, email)
        \/ register_username(c)
        \/ register_email(c)
        \/ \E random_part \in Parts : register_create(c, "password1", random_part, 1)

\* The client alters its refresh_token cookie: another user_id, a token it
\* signed with a key of its own, or its access token in the place of the
\* refresh token.
TamperRefresh ==
    /\ refresh_token # NoToken
    /\ refresh_token.signature = Sign(refresh_token.payload, JWT_SECRET)
    /\ \/ \E u \in UserIds \ {refresh_token.payload.user_id} :
             refresh_token' = [refresh_token EXCEPT !.payload.user_id = u]
       \/ refresh_token' = [refresh_token EXCEPT
                               !.signature = Sign(refresh_token.payload, "guess")]
       \/ access_token # NoToken /\ refresh_token' = access_token
    /\ UNCHANGED <<access_token, issued, authResponse>>

\* Time passes: a tick, or all but a second of the lifetime life.  Single
\* ticks are counted next to the start and next to the lifetime.
Wait(life, ticks) ==
    \E d \in {1, life - TicksPerSecond} :
        /\ now + d <= life + ticks
        /\ d = 1 => (now < ticks \/ now >= life - TicksPerSecond)
        /\ now' = now + d

(***************************************************************************)
(* ml_model/inference/predict.py and validation.py                         *)
(***************************************************************************)
TrackIds == {"y1", "y2", "y3"}          \* youtube ids of rows of tracks.csv
Scores == 0..1                          \* values of predict_proba[:, 1]

\* the sequences of at most n elements of S
RECURSIVE SeqsUpTo(_, _)
SeqsUpTo(S, n) ==
    IF n = 0 THEN {<<>>}
    ELSE SeqsUpTo(S, n - 1)
            \cup {Append(q, a) : q \in {x \in SeqsUpTo(S, n - 1) : Len(x) = n - 1}, a \in S}

Range(q) == {q[i] : i \in 1..Len(q)}

\* drop_duplicates(subset='youtube_id', keep='last'): the rows that no later
\* row repeats, in their order
RECURSIVE DropFrom(_, _)
DropFrom(rows, i) ==
    IF i > Len(rows) THEN <<>>
    ELSE IF \E j \in (i + 1)..Len(rows) : rows[j] = rows[i]
    THEN DropFrom(rows, i + 1)
    ELSE <<rows[i]>> \o DropFrom(rows, i + 1)

drop_duplicates(rows) == DropFrom(rows, 1)

\* validate_model_files and validate_imports: both files exist (the imports
\* of the running service succeed)
quick_validate(csv, model) == csv.exists /\ model.exists

NoPredictor == [loaded |-> FALSE, tracks |-> <<>>, proba |-> [t \in TrackIds |-> 0]]

\* TrackPredictor.__init__: the index of the table and the model
TrackPredictor(csv, model) ==
    [loaded |-> TRUE, tracks |-> drop_duplicates(csv.rows), proba |-> model.proba]

\* [c for c in self.tracks.index if c != track_id]
RECURSIVE Candidates(_, _, _)
Candidates(index, track_id, i) ==
    IF i > Len(index) THEN <<>>
    ELSE IF index[i] = track_id THEN Candidates(index, track_id, i + 1)
    ELSE <<index[i]>> \o Candidates(index, track_id, i + 1)

\* sorted(scores, key=lambda x: x[1], reverse=True): a stable sort, so the
\* pair x goes behind the pairs that score at least as much
InsertByScore(sorted, x) ==
    LET k == Cardinality({i \in 1..Len(sorted) : sorted[i][2] >= x[2]})
    IN  SubSeq(sorted, 1, k) \o <<x>> \o SubSeq(sorted, k + 1, Len(sorted))

RECURSIVE SortedByScore(_, _)
SortedByScore(scores, n) ==
    IF n = 0 THEN <<>> ELSE InsertByScore(SortedByScore(scores, n - 1), scores[n])

\* list(zip(candidates, probabilities))
RECURSIVE Zip(_, _, _)
Zip(candidates, proba, i) ==
    IF i > Len(candidates) THEN <<>>
    ELSE <<(<<candidates[i], proba[candidates[i]]>>)>> \o Zip(candidates, proba, i + 1)

\* mutant: the queried track is a candidate too
suggest_next_self(predictor, track_id, top_k) ==
    IF track_id \notin Range(predictor.tracks)
    THEN {[raise |-> "KeyError", result |-> <<>>]}
    ELSE LET candidates == predictor.tracks
             scores == Zip(candidates, predictor.proba, 1)
             sorted == SortedByScore(scores, Len(scores))
         IN  {[raise |-> "-", result |-> SubSeq(sorted, 1, IF top_k < Len(sorted)
                                                          THEN top_k ELSE Len(sorted))]}

\* TrackPredictor.suggest_next: the outcomes [raise, result].  Without
\* candidates predict_proba is handed an empty frame, which the classifier
\* may turn down.
suggest_next(predictor, track_id, top_k) ==
    IF track_id \notin Range(predictor.tracks)
    THEN {[raise |-> "KeyError", result |-> <<>>]}
    ELSE LET candidates == Candidates(predictor.tracks, track_id, 1)
             scores == Zip(candidates, predictor.proba, 1)
             sorted == SortedByScore(scores, Len(scores))
         IN  IF candidates = <<>>
             THEN {[raise |-> "ValueError", result |-> <<>>],
                   [raise |-> "-", result |-> <<>>]}
             ELSE {[raise |-> "-", result |-> SubSeq(sorted, 1, IF top_k < Len(sorted)
                                                              THEN top_k ELSE Len(sorted))]}

(***************************************************************************)
(* api/services/prediction_model.py: PredictionModel                       *)
(***************************************************************************)
\* the values of _state: a text, with the attempt it names or the message
\* of the error
State(name) == [name |-> name, attempt |-> 0, of |-> 0, msg |-> "-"]
Progress(name, attempt, max_attempts) ==
    [name |-> name, attempt |-> attempt, of |-> max_attempts, msg |-> "-"]
Error(name, msg) == [name |-> name, attempt |-> 0, of |-> 0, msg |-> msg]

ThreadIds == 1..MaxCalls
Callers == {1, 2}                       \* threads that may call start_background_training
Idle == [pc |-> "idle", max_attempts |-> 0]

\* a Thread object: pc is "none" (not created), "created" (not started),
\* the position of __init_model, or "done"; rounds counts the export-then-
\* train rounds begun, validated tells that a validation reported ready
NoThread == [pc |-> "none", attempt |-> 0, max_attempts |-> 0, err |-> "-",
             rounds |-> 0, validated |-> FALSE]

\* Thread.is_alive()
is_alive(thread) == thread.pc \notin {"none", "created", "done"}

Alive == {t \in ThreadIds : is_alive(threads[t])}

\* PredictionModel.__init__: the constructed fields
PredictionModel_init(csv, model, loads) ==
    IF ~quick_validate(csv, model)
    THEN [ready |-> FALSE, state |-> State("Not initialized"), predictor |-> NoPredictor]
    ELSE IF loads
    THEN [ready |-> TRUE, state |-> State("Ready"), predictor |-> TrackPredictor(csv, model)]
    ELSE [ready |-> FALSE, state |-> Error("Error loading", "load"),
          predictor |-> NoPredictor]

\* PredictionModel.is_ready(): the tuple (ready, state)
is_ready == [kind |-> "tuple", items |-> <<_ready, _state>>]

\* bool(value) of Python: a tuple is true unless it is empty
Truthy(value) ==
    IF value.kind = "tuple" THEN Len(value.items) > 0 ELSE value.items[1]

\* ensure_ready: the status it raises, 0 if it returns
ensure_ready(value) == IF ~Truthy(value) THEN 503 ELSE 0

\* start_background_training, line by line.  A caller reads _ready, then
\* _training_thread, then creates and assigns the thread, then starts the
\* thread that _training_thread holds.
begin_training(c, max_attempts) ==
    /\ starting[c].pc = "idle"
    /\ calls' = calls + 1
    /\ starting' = [starting EXCEPT ![c] =
                       IF _ready THEN Idle
                       ELSE [pc |-> "thread?", max_attempts |-> max_attempts]]
    /\ UNCHANGED <<tracks_csv, model_file, _ready, _state, _predictor,
                   _training_thread, threads, threadIds>>

check_thread(c) ==
    /\ starting[c].pc = "thread?"
    /\ starting' = [starting EXCEPT ![c] =
                       IF _training_thread # 0 /\ is_alive(threads[_training_thread])
                       THEN Idle ELSE [starting[c] EXCEPT !.pc = "create"]]
    /\ UNCHANGED <<tracks_csv, model_file, _ready, _state, _predictor,
                   _training_thread, threads, threadIds, calls>>

\* self._training_thread = threading.Thread(target=self.__init_model, ...)
create_thread(c) ==
    /\ starting[c].pc = "create"
    /\ threads' = [threads EXCEPT ![threadIds + 1] =
                      [NoThread EXCEPT !.pc = "created",
                                       !.max_attempts = starting[c].max_attempts]]
    /\ _training_thread' = threadIds + 1
    /\ threadIds' = threadIds + 1
    /\ starting' = [starting EXCEPT ![c] = [starting[c] EXCEPT !.pc = "start"]]
    /\ UNCHANGED <<tracks_csv, model_file, _ready, _state, _predictor, calls>>

\* self._training_thread.start(): a thread can only be started once
start_thread(c) ==
    /\ starting[c].pc = "start"
    /\ threads' = IF threads[_training_thread].pc = "created"
                  THEN [threads EXCEPT ![_training_thread].pc = "validate"]
                  ELSE threads
    /\ starting' = [starting EXCEPT ![c] = Idle]
    /\ UNCHANGED <<tracks_csv, model_file, _ready, _state, _predictor,
                   _training_thread, threadIds, calls>>

\* __init_model, line by line, run by thread t
Goto(t, pc) == threads' = [threads EXCEPT ![t].pc = pc]

Raise(t, err) == threads' = [threads EXCEPT ![t].pc = "except", ![t].err = err]

\* mutant: no break when the validation reports ready
validate_nobreak(t) ==
    /\ threads[t].pc = "validate"
    /\ IF threads[t].attempt >= threads[t].max_attempts
       THEN Goto(t, "after") /\ UNCHANGED _ready
       ELSE /\ _ready' = quick_validate(tracks_csv, model_file)
            /\ threads' = [threads EXCEPT
                  ![t].pc = "export_state",
                  ![t].validated = threads[t].validated \/ _ready']
    /\ UNCHANGED <<tracks_csv, model_file, _state, _predictor>>

\* for attempt in range(max_attempts): self._ready = validate_model()
validate(t) ==
    /\ threads[t].pc = "validate"
    /\ IF threads[t].attempt >= threads[t].max_attempts
       THEN Goto(t, "after") /\ UNCHANGED _ready
       ELSE /\ _ready' = quick_validate(tracks_csv, model_file)
            /\ threads' = [threads EXCEPT
                  ![t].pc = IF _ready' THEN "after" ELSE "export_state",
                  ![t].validated = threads[t].validated \/ _ready']
    /\ UNCHANGED <<tracks_csv, model_file, _state, _predictor>>

export_state(t) ==
    /\ threads[t].pc = "export_state"
    /\ _state' = Progress("Exporting transitions", threads[t].attempt + 1,
                          threads[t].max_attempts)
    /\ threads' = [threads EXCEPT ![t].pc = "export", ![t].rounds = threads[t].rounds + 1]
    /\ UNCHANGED <<tracks_csv, model_file, _ready, _predictor>>

\* export_main(): writes transitions.csv, or raises
export_transitions(t) ==
    /\ threads[t].pc = "export"
    /\ Goto(t, "train_state") \/ Raise(t, "export")
    /\ UNCHANGED <<tracks_csv, model_file, _ready, _state, _predictor>>

train_state(t) ==
    /\ threads[t].pc = "train_state"
    /\ _state' = Progress("Training model", threads[t].attempt + 1,
                          threads[t].max_attempts)
    /\ Goto(t, "train")
    /\ UNCHANGED <<tracks_csv, model_file, _ready, _predictor>>

\* the model train_main fits on the data of the repository
TrainedProba == [t \in TrackIds |-> IF t = "y2" THEN 1 ELSE 0]

\* train_main(): reads tracks.csv and dumps the model, or raises
train_model(t) ==
    /\ threads[t].pc = "train"
    /\ \/ /\ tracks_csv.exists
          /\ model_file' = [exists |-> TRUE, proba |-> TrainedProba]
          /\ Goto(t, "revalidate")
       \/ /\ Raise(t, "train")
          /\ UNCHANGED model_file
    /\ UNCHANGED <<tracks_csv, _ready, _state, _predictor>>

revalidate(t) ==
    /\ threads[t].pc = "revalidate"
    /\ _ready' = quick_validate(tracks_csv, model_file)
    /\ threads' = [threads EXCEPT ![t].pc = "validate",
                                  ![t].attempt = threads[t].attempt + 1,
                                  ![t].validated = threads[t].validated \/ _ready']
    /\ UNCHANGED <<tracks_csv, model_file, _state, _predictor>>

\* if self._ready: ... else: self._state = "Failed to train"
after_loop(t) ==
    /\ threads[t].pc = "after"
    /\ IF _ready
       THEN _state' = State("Loading predictor") /\ Goto(t, "load")
       ELSE _state' = State("Failed to train") /\ Goto(t, "done")
    /\ UNCHANGED <<tracks_csv, model_file, _ready, _predictor>>

\* self._predictor = TrackPredictor(), which may raise
load_predictor(t) ==
    /\ threads[t].pc = "load"
    /\ \/ /\ quick_validate(tracks_csv, model_file)
          /\ _predictor' = TrackPredictor(tracks_csv, model_file)
          /\ Goto(t, "set_ready")
       \/ /\ Raise(t, "load")
          /\ UNCHANGED _predictor
    /\ UNCHANGED <<tracks_csv, model_file, _ready, _state>>

set_ready(t) ==
    /\ threads[t].pc = "set_ready"
    /\ _state' = State("Ready")
    /\ Goto(t, "done")
    /\ UNCHANGED <<tracks_csv, model_file, _ready, _predictor>>

\* except Exception as e: self._ready = False
except_ready(t) ==
    /\ threads[t].pc = "except"
    /\ _ready' = FALSE
    /\ Goto(t, "except_state")
    /\ UNCHANGED <<tracks_csv, model_file, _state, _predictor>>

\* self._state = f"Error: {str(e)}"
except_state(t) ==
    /\ threads[t].pc = "except_state"
    /\ _state' = Error("Error", threads[t].err)
    /\ Goto(t, "done")
    /\ UNCHANGED <<tracks_csv, model_file, _ready, _predictor>>

\* one step of the training thread t
__init_model(t) ==
    /\ \/ validate(t) \/ export_state(t) \/ export_transitions(t) \/ train_state(t)
       \/ train_model(t) \/ revalidate(t) \/ after_loop(t) \/ load_predictor(t)
       \/ set_ready(t) \/ except_ready(t) \/ except_state(t)
    /\ UNCHANGED <<_training_thread, threadIds, starting, calls>>

\* one step of a call of start_background_training
start_background_training(c) ==
    \/ \E max_attempts \in 0..MaxAttempts : begin_training(c, max_attempts)
    \/ check_thread(c)
    \/ create_thread(c)
    \/ start_thread(c)

\* PredictionModel.get_status()
get_status ==
    [ready |-> _ready, state |-> _state,
     training |-> _training_thread # 0 /\ is_alive(threads[_training_thread])]

(***************************************************************************)
(* api/routers/prediction_router.py and api/utils/readiness.py             *)
(***************************************************************************)
NoPredictionRequest == [pc |-> "idle", track_id |-> "-", top_k |-> 0, gate |-> FALSE]

\* op: the route; status: the HTTP status; gate: the value of _ready when
\* the readiness dependency ran; state: the state the error names, or the
\* state reported; results: the list returned; raised: the exception
\* recommend_next ended with; called: whether suggest_next was called
PredictionAnswer(op, status, gate, state, track_id, top_k, raised, called, results) ==
    [op |-> op, status |-> status, gate |-> gate, state |-> state,
     track_id |-> track_id, top_k |-> top_k, raised |-> raised, called |-> called,
     results |-> results]

\* GET /prediction/status
get_model_status ==
    /\ request.pc = "idle"
    /\ predResponse' =
          IF ensure_ready(is_ready) # 0
          THEN PredictionAnswer("get_model_status", ensure_ready(is_ready), _ready,
                                _state, "-", 0, "-", FALSE, <<>>)
          ELSE PredictionAnswer("get_model_status", 200, _ready, get_status.state,
                                "-", 0, "-", FALSE, <<>>)
    /\ UNCHANGED request

\* GET /prediction/next_track: the readiness dependency, then the query
\* model TrackPredictionRequest (top_k at least 1)
recommend_next_track(track_id, top_k) ==
    /\ request.pc = "idle"
    /\ IF ensure_ready(is_ready) # 0
       THEN /\ predResponse' = PredictionAnswer("recommend_next_track",
                                  ensure_ready(is_ready), _ready, _state, track_id,
                                  top_k, "-", FALSE, <<>>)
            /\ UNCHANGED request
       ELSE IF top_k < 1
       THEN /\ predResponse' = PredictionAnswer("recommend_next_track", 422, _ready,
                                  _state, track_id, top_k, "-", FALSE, <<>>)
            /\ UNCHANGED request
       ELSE /\ request' = [pc |-> "ready?", track_id |-> track_id, top_k |-> top_k,
                           gate |-> _ready]
            /\ UNCHANGED predResponse

\* recommend_next: if not self._ready ...
read_ready ==
    /\ request.pc = "ready?"
    /\ request' = [request EXCEPT !.pc = IF ~_ready THEN "raise" ELSE "predictor?"]
    /\ UNCHANGED predResponse

\* mutant: the predictor is not looked at
read_predictor_skip ==
    /\ request.pc = "predictor?"
    /\ request' = [request EXCEPT !.pc = "suggest"]
    /\ UNCHANGED predResponse

\* ... or not self._predictor
read_predictor ==
    /\ request.pc = "predictor?"
    /\ request' = [request EXCEPT !.pc = IF ~_predictor.loaded THEN "raise" ELSE "suggest"]
    /\ UNCHANGED predResponse

\* raise RuntimeError(f"Model not ready: {self._state}"); the route does
\* not catch it
raise_not_ready ==
    /\ request.pc = "raise"
    /\ predResponse' = PredictionAnswer("recommend_next_track", 500, request.gate,
                          _state, request.track_id, request.top_k, "RuntimeError",
                          FALSE, <<>>)
    /\ request' = NoPredictionRequest

\* self._predictor.suggest_next(track_id, top_k=top_k); KeyError is 404
call_predictor ==
    /\ request.pc = "suggest"
    /\ \E out \in suggest_next(_predictor, request.track_id, request.top_k) :
          predResponse' = PredictionAnswer("recommend_next_track",
                             IF out.raise = "KeyError" THEN 404
                             ELSE IF out.raise # "-" THEN 500 ELSE 200,
                             request.gate, _state, request.track_id, request.top_k,
                             out.raise, TRUE, out.result)
    /\ request' = NoPredictionRequest

\* one step of the request being served
recommend_next == read_ready \/ read_predictor \/ raise_not_ready \/ call_predictor

\* the files on disk when the service is constructed, and the service
InitPrediction(Csvs, Models) ==
    /\ tracks_csv \in Csvs
    /\ model_file \in Models
    /\ \E loads \in BOOLEAN :
          LET made == PredictionModel_init(tracks_csv, model_file, loads)
          IN  _ready = made.ready /\ _state = made.state /\ _predictor = made.predictor
    /\ _training_thread = 0
    /\ threads = [t \in ThreadIds |-> NoThread]
    /\ threadIds = 0
    /\ starting = [c \in Callers |-> Idle]
    /\ calls = 0
    /\ request = NoPredictionRequest
    /\ predResponse = PredictionAnswer("-", 0, FALSE, State("-"), "-", 0, "-", FALSE, <<>>)

NoCsv == [exists |-> FALSE, rows |-> <<>>]
NoModel == [exists |-> FALSE, proba |-> [t \in TrackIds |-> 0]]

\* the table of the repository, and the model trained on it
RepositoryCsv == [exists |-> TRUE, rows |-> <<"y1", "y2", "y1">>]
RepositoryModel == [exists |-> TRUE, proba |-> TrainedProba]

\* every table of at most MaxCsvRows rows and every model
Csvs == {[exists |-> TRUE, rows |-> rows] : rows \in SeqsUpTo(TrackIds, MaxCsvRows)}
Models == {[exists |-> TRUE, proba |-> proba] : proba \in [TrackIds -> Scores]}

\* Calls of start_background_training by the callers in Cs, at most
\* maxCalls of them
Start(Cs, maxCalls) ==
    /\ \E c \in Cs :
          /\ (starting[c].pc = "idle") => (calls < maxCalls)
          /\ start_background_training(c)
    /\ UNCHANGED <<clientVars, NotPrediction>>

\* The steps of the training threads
Train ==
    /\ \E t \in ThreadIds : __init_model(t)
    /\ UNCHANGED <<clientVars, NotPrediction>>

\* Requests to the /prediction routes, one at a time
Ask(Ids, TopKs) ==
    /\ \/ get_model_status
       \/ \E track_id \in Ids, top_k \in TopKs : recommend_next_track(track_id, top_k)
       \/ recommend_next
    /\ UNCHANGED <<serviceVars, NotPrediction>>

(***************************************************************************)
(* api/routers/playlist_router.py                                          *)
(***************************************************************************)
NoRequest ==
    [youtube_id |-> "-", position |-> "-", prev_sort |-> Absent, next_sort |-> Absent]

\* op, cred, playlist_id: the route, the caller and the path parameter;
\* status: the HTTP status; call, ret: the store operation the handler
\* dispatched to and what it returned; request: the validated body, with the
\* youtube id of the path; id: the membership row inserted or named; body:
\* the rows returned
Answer(op, cred, p, status, call, ret, req, id, body) ==
    [op |-> op, cred |-> cred, playlist_id |-> p, status |-> status,
     call |-> call, ret |-> ret, request |-> req, id |-> id, body |-> body]

WithId(body, youtube_id) ==
    [youtube_id |-> youtube_id, position |-> body.position,
     prev_sort |-> body.prev_sort, next_sort |-> body.next_sort]

\* sort keys a client may send: those of the playlist's rows, and others
ExtraSorts == {<<0, 0, 1000, 0, 16000, 0>>}        \* 1000.0000016
SortInputs(p) == SortKeys(PlaylistRows(playlist_track, p)) \cup ExtraSorts

\* request bodies with every shape of the two optional fields
RouteRequests(p) ==
    LET fields == {Absent, Null}
                     \cup {Value(v) : v \in SortKeys(PlaylistRows(playlist_track, p))}
    IN  [position : {"start", "end", "middle"}, prev_sort : {Absent}, next_sort : {Absent}]
           \cup [position : {"between"}, prev_sort : fields, next_sort : fields]

\* request bodies without the optional fields
PlainRequests(p) ==
    [position : {"start", "end"}, prev_sort : {Absent}, next_sort : {Absent}]

\* well-formed request bodies with every pair of sort keys
OrderRequests(p) ==
    [position : {"start", "end"}, prev_sort : {Absent}, next_sort : {Absent}]
       \cup [position : {"between"}, prev_sort : {Value(v) : v \in SortInputs(p)},
                                   next_sort : {Value(v) : v \in SortInputs(p)}]

\* sort keys at the ends of the range: zero, a negative key, a key above
\* zero by less than twice the minimum gap, a key less than one gap below
\* the limit of add_track_to_end
EndSorts ==
    {Dec(0), Dec(-4000), <<0, 0, 0, 0, 15000, 0>>, <<0, 99999, 99500, 0, 0, 0>>}

\* request bodies that put rows at the ends of the range
EndRequests(p) ==
    [position : {"start", "end"}, prev_sort : {Absent}, next_sort : {Absent}]
       \cup [position : {"between"}, prev_sort : {Value(v) : v \in EndSorts},
                                   next_sort : {Value(v) : v \in EndSorts}]

(***************************************************************************)
(* analyzer/main.py and analyzer/pipeline.py: a run of the analyzer is a   *)
(* process of its own with the module's four queues, the download thread,  *)
(* the analyzer thread and its pool of worker processes, the writer thread *)
(* and the failure thread.                                                 *)
(***************************************************************************)
VideoIds == {"v1", "v2"}                \* ids of tracks of dataset.json
DOWNLOAD_THREADS == 1
RETRY_AFTER_DAYS == 7

\* the sentinel None that ends a thread, in each queue
Stop == "None"
StopResult == [youtube_id |-> Stop, bpm |-> 0]
StopFailure == [video_id |-> Stop, error_msg |-> "-"]

\* the first line of tracks.csv
Header == [youtube_id |-> "youtube_id", bpm |-> 0]

NoTracks == [exists |-> FALSE, lines |-> <<>>]
NoEntry == [present |-> FALSE, error |-> "-", timestamp |-> [iso |-> TRUE, day |-> 0],
            attempts |-> 0]
NoEntries == [v \in VideoIds |-> NoEntry]
NoCache == [exists |-> FALSE, entries |-> NoEntries]

\* how often v occurs in q
RECURSIVE Count(_, _)
Count(v, q) ==
    IF q = <<>> THEN 0
    ELSE (IF Head(q) = v THEN 1 ELSE 0) + Count(v, Tail(q))

\* q without its i-th element
RemoveAt(q, i) == SubSeq(q, 1, i - 1) \o SubSeq(q, i + 1, Len(q))

\* q followed by n times v
RECURSIVE Put(_, _, _)
Put(q, v, n) == IF n = 0 THEN q ELSE Put(Append(q, v), v, n - 1)

\* main: track["id"] for mix in data for track in mix["tracklist"]
RECURSIVE all_video_ids(_)
all_video_ids(data) ==
    IF data = <<>> THEN <<>> ELSE Head(data) \o all_video_ids(Tail(data))

\* the youtube_id column of the rows DictReader yields
RowIds(file) ==
    IF file.lines = <<>> THEN {}
    ELSE {file.lines[i].youtube_id : i \in 2..Len(file.lines)}

get_processed_ids(file) == IF ~file.exists THEN {} ELSE RowIds(file)

load_failed_videos(file) == IF ~file.exists THEN NoEntries ELSE file.entries

\* mutant: every id of the cache is skipped
get_failed_ids_all(file, at) ==
    {vid \in VideoIds : load_failed_videos(file)[vid].present}

\* datetime.fromisoformat raises on a timestamp that is no ISO date
get_failed_ids(file, at) ==
    LET cache == load_failed_videos(file)
        cutoff_date == at - RETRY_AFTER_DAYS
    IN  {vid \in VideoIds :
            /\ cache[vid].present
            /\ \/ ~cache[vid].timestamp.iso
               \/ cache[vid].timestamp.day > cutoff_date}

\* [vid for vid in all_video_ids if vid not in skip_ids]
RECURSIVE Remaining(_, _)
Remaining(q, skip_ids) ==
    IF q = <<>> THEN <<>>
    ELSE (IF Head(q) \in skip_ids THEN <<>> ELSE <<Head(q)>>)
            \o Remaining(Tail(q), skip_ids)

\* random.shuffle: the orders of q
Shuffles(q) ==
    {t \in SeqsUpTo(Range(q), Len(q)) :
        Len(t) = Len(q) /\ \A v \in Range(q) : Count(v, t) = Count(v, q)}

Threads(main, dl, analyzer, writer, failure) ==
    [main |-> main, download |-> dl, analyzer |-> analyzer, writer |-> writer,
     failure |-> failure]

NoDownload == [vid |-> "-", error_count |-> 3, error_msg |-> "unbound", error_of |-> "-"]

\* The files a run finds, and no run yet.
InitPipeline(Mixes, Files, Caches) ==
    /\ dataset_json \in Mixes
    /\ csv_path \in Files
    /\ cache_path \in Caches
    /\ tmp = {}
    /\ today = 0
    /\ download_q = <<>>
    /\ unfinished_tasks = 0
    /\ analyze_q = <<>>
    /\ result_q = <<>>
    /\ failure_q = <<>>
    /\ worker_failure_q = <<>>
    /\ pool = <<>>
    /\ pipe = Threads("idle", "idle", "idle", "idle", "idle")
    /\ download = NoDownload
    /\ existing_ids = {}
    /\ analyze_bar = [results |-> 0, n |-> 0]
    /\ failed_cache = NoEntries
    /\ runs = 0
    /\ video_ids = <<>>
    /\ attempted = [v \in VideoIds |-> 0]
    /\ failures = {}

\* main(): the queue of the run; run_pipeline fills download_q and starts
\* the threads.  Without ids main returns.
main(maxRuns) ==
    /\ pipe.main \in {"idle", "done"}
    /\ runs < maxRuns
    /\ runs' = runs + 1
    /\ LET processed_ids == get_processed_ids(csv_path)
           failed_ids == get_failed_ids(cache_path, today)
           skip_ids == processed_ids \cup failed_ids
       IN  video_ids' \in Shuffles(Remaining(all_video_ids(dataset_json), skip_ids))
    /\ download_q' = video_ids'
    /\ unfinished_tasks' = Len(video_ids')
    /\ analyze_q' = <<>>
    /\ result_q' = <<>>
    /\ failure_q' = <<>>
    /\ worker_failure_q' = <<>>
    /\ pool' = <<>>
    /\ pipe' = IF video_ids' = <<>>
               THEN Threads("done", "idle", "idle", "idle", "idle")
               ELSE Threads("join_download", "get", "get", "open", "load")
    /\ download' = NoDownload
    /\ existing_ids' = {}
    /\ analyze_bar' = [results |-> 0, n |-> 0]
    /\ failed_cache' = NoEntries
    /\ attempted' = [v \in VideoIds |-> 0]
    /\ failures' = {}
    /\ UNCHANGED <<dataset_json, csv_path, cache_path, tmp, today>>

\* save_failed_video in the main process
save_failed_video(q, video_id, error_msg) ==
    Append(q, [video_id |-> video_id, error_msg |-> error_msg])

\* download_worker: vid = download_q.get()
download_get ==
    /\ pipe.download = "get"
    /\ download_q # <<>>
    /\ download_q' = Tail(download_q)
    /\ IF Head(download_q) = Stop
       THEN /\ pipe' = [pipe EXCEPT !.download = "done"]
            /\ UNCHANGED <<download, attempted>>
       ELSE /\ pipe' = [pipe EXCEPT !.download = "run"]
            /\ download' = [download EXCEPT !.vid = Head(download_q)]
            /\ attempted' = [attempted EXCEPT ![Head(download_q)] = @ + 1]
    /\ UNCHANGED <<dataset_json, csv_path, cache_path, tmp, today, unfinished_tasks,
                   analyze_q, result_q, failure_q, worker_failure_q, pool,
                   existing_ids, analyze_bar, failed_cache, runs, video_ids, failures>>

DownloadOutcomes == {"cut", "cut without output", "CalledProcessError", "file not found",
                     "Cut failed", "Exception"}

\* download_worker: yt_dlp, center_cut and the handlers, up to task_done
download_run(outcome) ==
    LET vid == download.vid
        counted == IF download.error_count > 1 THEN 0 ELSE download.error_count + 1
        error_msg ==
            CASE outcome = "CalledProcessError" -> "Download error"
              [] outcome = "file not found" -> "Download failed - file not found"
              [] outcome = "Cut failed" -> "Cut failed"
              [] outcome = "Exception" ->
                    IF download.error_count > 1 THEN "Error" ELSE download.error_msg
              [] OTHER -> download.error_msg
        fails == outcome \notin {"cut", "cut without output"}
        assigns == fails /\ (outcome = "Exception" => download.error_count > 1)
    IN  /\ pipe.download = "run"
        /\ pipe' = [pipe EXCEPT !.download = "task_done"]
        /\ download' = [download EXCEPT
                           !.error_msg = error_msg,
                           !.error_of = IF assigns THEN vid ELSE @,
                           !.error_count =
                               IF outcome \in {"CalledProcessError", "Exception"}
                               THEN counted ELSE @]
        /\ tmp' = IF outcome = "cut" THEN tmp \cup {vid} ELSE tmp
        /\ analyze_q' = IF fails THEN analyze_q ELSE Append(analyze_q, vid)
        /\ failure_q' = IF fails THEN save_failed_video(failure_q, vid, error_msg)
                        ELSE failure_q
        /\ failures' = IF fails THEN failures \cup {[video_id |-> vid, error_msg |-> error_msg]}
                       ELSE failures
        /\ UNCHANGED <<dataset_json, csv_path, cache_path, today, download_q,
                       unfinished_tasks, result_q, worker_failure_q, pool,
                       existing_ids, analyze_bar, failed_cache, runs, video_ids,
                       attempted>>

\* mutant: task_done is left out
download_task_done_skip ==
    /\ pipe.download = "task_done"
    /\ pipe' = [pipe EXCEPT !.download = "get"]
    /\ UNCHANGED <<dataset_json, csv_path, cache_path, tmp, today, download_q,
                   unfinished_tasks, analyze_q, result_q, failure_q, worker_failure_q,
                   pool, download, existing_ids, analyze_bar, failed_cache, runs,
                   video_ids, attempted, failures>>

\* download_worker: download_q.task_done()
download_task_done ==
    /\ pipe.download = "task_done"
    /\ unfinished_tasks' = unfinished_tasks - 1
    /\ pipe' = [pipe EXCEPT !.download = "get"]
    /\ UNCHANGED <<dataset_json, csv_path, cache_path, tmp, today, download_q,
                   analyze_q, result_q, failure_q, worker_failure_q, pool, download,
                   existing_ids, analyze_bar, failed_cache, runs, video_ids, attempted,
                   failures>>

download_worker ==
    \/ download_get
    \/ \E outcome \in DownloadOutcomes : download_run(outcome)
    \/ download_task_done

\* mutant: when get times out the loop ends, whatever the downloads do
analyzer_get_hasty ==
    /\ pipe.analyzer = "get"
    /\ \/ /\ analyze_q # <<>>
          /\ analyze_q' = Tail(analyze_q)
          /\ IF Head(analyze_q) = Stop
             THEN pipe' = [pipe EXCEPT !.analyzer = "close"] /\ pool' = pool
             ELSE pipe' = pipe /\ pool' = Append(pool, Head(analyze_q))
       \/ /\ analyze_q = <<>>
          /\ pipe' = [pipe EXCEPT !.analyzer = "close"]
          /\ UNCHANGED <<analyze_q, pool>>
    /\ UNCHANGED <<dataset_json, csv_path, cache_path, tmp, today, download_q,
                   unfinished_tasks, result_q, failure_q, worker_failure_q, download,
                   existing_ids, analyze_bar, failed_cache, runs, video_ids, attempted,
                   failures>>

\* analyzer_loop: an item of analyze_q is given to the pool, None ends the
\* loop; when get times out the loop ends if the downloads are done.
analyzer_get ==
    /\ pipe.analyzer = "get"
    /\ \/ /\ analyze_q # <<>>
          /\ analyze_q' = Tail(analyze_q)
          /\ IF Head(analyze_q) = Stop
             THEN pipe' = [pipe EXCEPT !.analyzer = "close"] /\ pool' = pool
             ELSE pipe' = pipe /\ pool' = Append(pool, Head(analyze_q))
       \/ /\ analyze_q = <<>>
          /\ unfinished_tasks = 0
          /\ pipe' = [pipe EXCEPT !.analyzer = "close"]
          /\ UNCHANGED <<analyze_q, pool>>
    /\ UNCHANGED <<dataset_json, csv_path, cache_path, tmp, today, download_q,
                   unfinished_tasks, result_q, failure_q, worker_failure_q, download,
                   existing_ids, analyze_bar, failed_cache, runs, video_ids, attempted,
                   failures>>

\* analyzer_loop: pool.close(), pool.join(), result_q.put(None)
analyzer_join ==
    /\ pipe.analyzer = "close"
    /\ pool = <<>>
    /\ result_q' = Append(result_q, StopResult)
    /\ pipe' = [pipe EXCEPT !.analyzer = "done"]
    /\ UNCHANGED <<dataset_json, csv_path, cache_path, tmp, today, download_q,
                   unfinished_tasks, analyze_q, failure_q, worker_failure_q, pool,
                   download, existing_ids, analyze_bar, failed_cache, runs, video_ids,
                   attempted, failures>>

\* analyze_worker in a worker process of the pool, and the callback of
\* apply_async in the main process.  save_failed_video puts on the
\* failure_q of the process that calls it.
analyze_worker(i, outcome) ==
    LET vid == pool[i]
        error_msg == IF vid \notin tmp THEN "File missing for analysis" ELSE "Analyze error"
        fails == vid \notin tmp \/ outcome = "Exception"
    IN  /\ pipe.analyzer \in {"get", "close"}
        /\ i \in 1..Len(pool)
        /\ pool' = RemoveAt(pool, i)
        /\ tmp' = IF fails THEN tmp ELSE tmp \ {vid}
        /\ result_q' = IF fails THEN result_q
                       ELSE Append(result_q, [youtube_id |-> vid, bpm |-> runs])
        /\ worker_failure_q' =
              IF fails THEN save_failed_video(worker_failure_q, vid, error_msg)
              ELSE worker_failure_q
        /\ failures' = IF fails THEN failures \cup {[video_id |-> vid, error_msg |-> error_msg]}
                       ELSE failures
        /\ UNCHANGED <<dataset_json, csv_path, cache_path, today, download_q,
                       unfinished_tasks, analyze_q, failure_q, pipe, download,
                       existing_ids, analyze_bar, failed_cache, runs, video_ids,
                       attempted>>

analyzer_loop ==
    \/ analyzer_get
    \/ \E i \in 1..Len(pool), outcome \in {"data", "Exception"} : analyze_worker(i, outcome)
    \/ analyzer_join

\* writer_worker: the ids of the file are read, the file is opened for
\* appending and gets its header if it is new or empty
writer_open ==
    LET file_exists == csv_path.exists
        needs_header == ~file_exists \/ csv_path.lines = <<>>
    IN  /\ pipe.writer = "open"
        /\ existing_ids' = IF file_exists /\ csv_path.lines # <<>> THEN RowIds(csv_path)
                           ELSE {}
        /\ csv_path' = [exists |-> TRUE,
                        lines |-> IF needs_header THEN Append(csv_path.lines, Header)
                                  ELSE csv_path.lines]
        /\ pipe' = [pipe EXCEPT !.writer = "get"]
        /\ UNCHANGED <<dataset_json, cache_path, tmp, today, download_q,
                       unfinished_tasks, analyze_q, result_q, failure_q,
                       worker_failure_q, pool, download, analyze_bar, failed_cache, runs,
                       video_ids, attempted, failures>>

\* mutant: every item is written
writer_row_any(item, ids) == TRUE

\* writer_worker: item["youtube_id"] not in existing_ids
writer_row(item, ids) == item.youtube_id \notin ids

\* writer_worker: item = result_q.get()
writer_get ==
    LET item == Head(result_q)
    IN  /\ pipe.writer = "get"
        /\ result_q # <<>>
        /\ result_q' = Tail(result_q)
        /\ IF item = StopResult
           THEN /\ pipe' = [pipe EXCEPT !.writer = "done"]
                /\ UNCHANGED <<csv_path, existing_ids, analyze_bar>>
           ELSE /\ pipe' = pipe
                /\ IF writer_row(item, existing_ids)
                   THEN /\ csv_path' = [csv_path EXCEPT !.lines = Append(@, item)]
                        /\ existing_ids' = existing_ids \cup {item.youtube_id}
                        /\ analyze_bar' = [results |-> analyze_bar.results + 1,
                                            n |-> analyze_bar.n + 1]
                   ELSE /\ analyze_bar' = [analyze_bar EXCEPT !.n = @ + 1]
                        /\ UNCHANGED <<csv_path, existing_ids>>
        /\ UNCHANGED <<dataset_json, cache_path, tmp, today, download_q,
                       unfinished_tasks, analyze_q, failure_q, worker_failure_q, pool,
                       download, failed_cache, runs, video_ids, attempted, failures>>

writer_worker == writer_open \/ writer_get

\* failure_writer: failed_cache = load_failed_videos()
failure_load ==
    /\ pipe.failure = "load"
    /\ failed_cache' = load_failed_videos(cache_path)
    /\ pipe' = [pipe EXCEPT !.failure = "get"]
    /\ UNCHANGED <<dataset_json, csv_path, cache_path, tmp, today, download_q,
                   unfinished_tasks, analyze_q, result_q, failure_q, worker_failure_q,
                   pool, download, existing_ids, analyze_bar, runs, video_ids, attempted,
                   failures>>

\* failure_writer: item = failure_q.get(); the entry of the id is set and
\* the file is written
failure_get ==
    LET item == Head(failure_q)
    IN  /\ pipe.failure = "get"
        /\ failure_q # <<>>
        /\ failure_q' = Tail(failure_q)
        /\ IF item = StopFailure
           THEN /\ pipe' = [pipe EXCEPT !.failure = "done"]
                /\ UNCHANGED <<failed_cache, cache_path>>
           ELSE /\ pipe' = pipe
                /\ failed_cache' =
                      [failed_cache EXCEPT ![item.video_id] =
                          [present |-> TRUE, error |-> item.error_msg,
                           timestamp |-> [iso |-> TRUE, day |-> today],
                           attempts |-> failed_cache[item.video_id].attempts + 1]]
                /\ cache_path' = [exists |-> TRUE, entries |-> failed_cache']
        /\ UNCHANGED <<dataset_json, csv_path, tmp, today, download_q,
                       unfinished_tasks, analyze_q, result_q, worker_failure_q, pool,
                       download, existing_ids, analyze_bar, runs, video_ids, attempted,
                       failures>>

failure_writer == failure_load \/ failure_get

\* run_pipeline: download_q.join(), then None for each download thread and
\* for the analyzer
join_download ==
    /\ pipe.main = "join_download"
    /\ unfinished_tasks = 0
    /\ download_q' = Put(download_q, Stop, DOWNLOAD_THREADS)
    /\ unfinished_tasks' = DOWNLOAD_THREADS
    /\ analyze_q' = Append(analyze_q, Stop)
    /\ pipe' = [pipe EXCEPT !.main = "join_analyzer"]
    /\ UNCHANGED <<dataset_json, csv_path, cache_path, tmp, today, result_q,
                   failure_q, worker_failure_q, pool, download, existing_ids, analyze_bar,
                   failed_cache, runs, video_ids, attempted, failures>>

\* run_pipeline: analyzer_thread.join(); writer_thread.join(timeout=10),
\* then None for the failure writer; failure_thread.join(timeout=5).  The
\* model has no clock for the two timeouts: a join ends when its thread has
\* ended.
join_threads ==
    /\ \/ /\ pipe.main = "join_analyzer"
          /\ pipe.analyzer = "done"
          /\ pipe' = [pipe EXCEPT !.main = "join_writer"]
          /\ UNCHANGED failure_q
       \/ /\ pipe.main = "join_writer"
          /\ pipe.writer = "done"
          /\ failure_q' = Append(failure_q, StopFailure)
          /\ pipe' = [pipe EXCEPT !.main = "join_failure"]
       \/ /\ pipe.main = "join_failure"
          /\ pipe.failure = "done"
          /\ pipe' = [pipe EXCEPT !.main = "done"]
          /\ UNCHANGED failure_q
    /\ UNCHANGED <<dataset_json, csv_path, cache_path, tmp, today, download_q,
                   unfinished_tasks, analyze_q, result_q, worker_failure_q, pool,
                   download, existing_ids, analyze_bar, failed_cache, runs, video_ids,
                   attempted, failures>>

run_pipeline == join_download \/ join_threads

\* days pass
Tomorrow(Days, maxDays) ==
    /\ \E d \in Days : today + d <= maxDays /\ today' = today + d
    /\ UNCHANGED <<dataset_json, csv_path, cache_path, tmp, download_q,
                   unfinished_tasks, analyze_q, result_q, failure_q, worker_failure_q,
                   pool, pipe, download, existing_ids, analyze_bar, failed_cache, runs,
                   video_ids, attempted, failures>>

(***************************************************************************)
(* api/services/track_search.py and api/cache/redis_handler.py             *)
(***************************************************************************)
Queries == {"alpha", "Alpha", "beta"}
Tops == {1, 2}
DEFAULT_TTL == 600                      \* seconds

Candidate(id, title, candidate) == [candidate |-> candidate, id |-> id, title |-> title]

\* TrackSearcher.tracks when tracks.csv holds both tracks of the dataset,
\* and when it holds none of them or cannot be read
BothTracks == <<Candidate("y1", "alpha", "y1 alpha"), Candidate("y2", "beta", "y2 beta")>>
Searchers == {[tracks |-> <<>>], [tracks |-> BothTracks]}

\* str.lower
Lower(s) == IF s = "Alpha" THEN "alpha" ELSE s

\* RedisHandler.make_key: ":".join(str(p).strip().lower() for p in parts)
make_key(prefix, query, top, return_null_ids) ==
    <<Lower(prefix), Lower(query), top, IF return_null_ids THEN "true" ELSE "false">>

Keys == {make_key("track_search", q, t, r) : q \in Queries, t \in Tops, r \in BOOLEAN}

\* orjson.dumps of the list of matches: the objects in order, each as the
\* values of its keys
RECURSIVE orjson_dumps(_)
orjson_dumps(value) ==
    IF value = <<>> THEN <<>>
    ELSE LET m == Head(value)
         IN  <<<<m.candidate, m.id, m.title, m.score, m.bpm>>>> \o orjson_dumps(Tail(value))

RECURSIVE orjson_loads(_)
orjson_loads(bytes) ==
    IF bytes = <<>> THEN <<>>
    ELSE LET o == Head(bytes)
         IN  <<[candidate |-> o[1], id |-> o[2], title |-> o[3], score |-> o[4],
                bpm |-> o[5]]>> \o orjson_loads(Tail(bytes))

\* a key of the database; by is the query of the call that stored it
NoKey == [present |-> FALSE, value |-> <<>>, expires |-> 0, by |-> "-"]

\* RedisHandler.get: None for a key that is not there or has expired
\* [none, value]
RedisHandler_get(db, key, at) ==
    IF ~db[key].present \/ at >= db[key].expires
    THEN [none |-> TRUE, value |-> <<>>]
    ELSE [none |-> FALSE, value |-> orjson_loads(db[key].value)]

\* RedisHandler.set: setex(key, ttl, orjson.dumps(value))
RedisHandler_set(db, key, value, ttl, at) ==
    [db EXCEPT ![key] = [@ EXCEPT !.present = TRUE, !.value = orjson_dumps(value),
                                  !.expires = at + (IF ttl # 0 THEN ttl ELSE DEFAULT_TTL)
                                                       * TicksPerSecond]]

\* fuzz.token_sort_ratio of the query and a candidate, in hundredths: the
\* normalised Indel similarity of the two strings with their words sorted
token_sort_ratio(query, candidate) ==
    CASE query = "alpha" /\ candidate = "y1 alpha" -> 7692
      [] query = "Alpha" /\ candidate = "y1 alpha" -> 6153
      [] query = "beta" /\ candidate = "y2 beta" -> 7272
      [] OTHER -> 1666

\* process.extract(query, candidates, scorer=fuzz.token_sort_ratio,
\* limit=top): the best candidates first, as (choice, score, index)
RECURSIVE extract(_, _, _, _)
extract(query, candidates, left, limit) ==
    IF limit = 0 \/ left = {} THEN <<>>
    ELSE LET score(i) == token_sort_ratio(query, candidates[i])
             idx == CHOOSE i \in left :
                        \A j \in left : score(i) > score(j) \/ (score(i) = score(j) /\ i <= j)
         IN  <<<<candidates[idx], score(idx), idx>>>>
                \o extract(query, candidates, left \ {idx}, limit - 1)

RECURSIVE CandidatesOf(_)
CandidatesOf(filtered_tracks) ==
    IF filtered_tracks = <<>> THEN <<>>
    ELSE <<Head(filtered_tracks).candidate>> \o CandidatesOf(Tail(filtered_tracks))

RECURSIVE MatchesOf(_, _)
MatchesOf(filtered_tracks, found) ==
    IF found = <<>> THEN <<>>
    ELSE LET track_info == filtered_tracks[Head(found)[3]]
         IN  <<[candidate |-> track_info.candidate, id |-> track_info.id,
                title |-> track_info.title, score |-> Head(found)[2],
                bpm |-> get_track_metadata(track_info.id).bpm]>>
                \o MatchesOf(filtered_tracks, Tail(found))

\* search_track without the cache.  Every track of TrackSearcher.tracks
\* has an id, so return_null_ids filters nothing.
Matches(searcher, query, top) ==
    LET filtered_tracks == searcher.tracks
        candidates == CandidatesOf(filtered_tracks)
    IN  MatchesOf(filtered_tracks,
                  extract(query, candidates, 1..Len(candidates), top))

NoCall == [query |-> "-", top |-> 0, return_null_ids |-> FALSE, at |-> 0,
           result |-> <<>>, scored |-> FALSE, expires |-> 0, by |-> "-"]

\* the searcher of search_router and an empty Redis database
InitSearch(Ss) ==
    /\ track_searcher \in Ss
    /\ redis = [k \in Keys |-> NoKey]
    /\ searched = [last |-> NoCall, previous |-> NoCall]

\* mutant: None is the only miss
Cached_not_none(cached) == ~cached.none

\* search_track: if cached
Cached(cached) == ~cached.none /\ cached.value # <<>>

\* TrackSearcher.search_track
search_track(query, top, return_null_ids) ==
    LET cache_key == make_key("track_search", query, top, return_null_ids)
        cached == RedisHandler_get(redis, cache_key, now)
        matches == Matches(track_searcher, query, top)
    IN  /\ redis' = IF Cached(cached) THEN redis
                    ELSE [RedisHandler_set(redis, cache_key, matches, DEFAULT_TTL, now)
                             EXCEPT ![cache_key].by = query]
        /\ searched' =
              [last |-> [query |-> query, top |-> top,
                         return_null_ids |-> return_null_ids, at |-> now,
                         result |-> IF Cached(cached) THEN cached.value ELSE matches,
                         scored |-> ~Cached(cached),
                         expires |-> redis'[cache_key].expires,
                         by |-> redis'[cache_key].by],
               previous |-> searched.last]
        /\ UNCHANGED track_searcher

(***************************************************************************)
(* api/cache/redis_handler.py with values of every type.  A Python value   *)
(* is its type and its text: the characters of a str or of bytes, the repr *)
(* of a number, the compact JSON text of a list or a dict.                 *)
(***************************************************************************)
Str(text) == [type |-> "str", of |-> text]
Bytes(text) == [type |-> "bytes", of |-> text]
Number(type, text) == [type |-> type, of |-> text]
Structure(type, text) == [type |-> type, of |-> text]
NoValue == [type |-> "NoneType", of |-> "None"]

\* the values a caller stores
StoredValues ==
    {Str("123"), Str("true"), Str("hello"), Number("int", "123"),
     Number("float", "1.5"), Bytes("hello"), Bytes("[1,2]"),
     Structure("list", "[1,2]"), Structure("dict", "{\"a\":1}")}

CacheKeys == {"k1"}
Ttls == {0, 1}                          \* ttl of a call of set: None, or seconds

\* orjson.dumps of a list or a dict: the bytes of its compact JSON text
dumps(value) == Bytes(value.of)

\* orjson.loads of bytes: the value of a JSON text, [raise, value]
loads(bytes) ==
    CASE bytes.of = "123" -> [raise |-> "-", value |-> Number("int", "123")]
      [] bytes.of = "1.5" -> [raise |-> "-", value |-> Number("float", "1.5")]
      [] bytes.of = "true" -> [raise |-> "-", value |-> [type |-> "bool", of |-> "True"]]
      [] bytes.of = "[1,2]" -> [raise |-> "-", value |-> Structure("list", "[1,2]")]
      [] bytes.of = "{\"a\":1}" ->
            [raise |-> "-", value |-> Structure("dict", "{\"a\":1}")]
      [] OTHER -> [raise |-> "JSONDecodeError", value |-> NoValue]

\* what redis-py sends for a value: bytes as they are, a str encoded, the
\* repr of an int or a float
encode(value) ==
    IF value.type \in {"bytes", "str", "int", "float"}
    THEN [raise |-> "-", value |-> Bytes(value.of)]
    ELSE [raise |-> "DataError", value |-> NoValue]

\* a key of the database: the bytes stored, and source, the value that the
\* caller of set passed
NoCacheKey == [present |-> FALSE, value |-> NoValue, expires |-> 0, source |-> NoValue]

\* RedisHandler.set of a handler: [keys, raise]
RedisHandler_set_value(enabled, keys, key, value, ttl, at) ==
    LET seconds == IF ttl # 0 THEN ttl ELSE DEFAULT_TTL
        sent == encode(IF value.type \in {"dict", "list"} THEN dumps(value) ELSE value)
    IN  IF ~enabled THEN [keys |-> keys, raise |-> "-"]
        ELSE IF sent.raise # "-" THEN [keys |-> keys, raise |-> sent.raise]
        ELSE [keys |-> [keys EXCEPT ![key] =
                           [present |-> TRUE, value |-> sent.value,
                            expires |-> at + seconds * TicksPerSecond,
                            source |-> value]],
              raise |-> "-"]

\* RedisHandler.get of a handler: [none, value, raise]; decode_responses is
\* False, so the client returns bytes
RedisHandler_get_value(enabled, keys, key, at) ==
    IF ~enabled THEN [none |-> TRUE, value |-> NoValue, raise |-> "-"]
    ELSE IF ~keys[key].present \/ at >= keys[key].expires
    THEN [none |-> TRUE, value |-> NoValue, raise |-> "-"]
    ELSE LET out == loads(keys[key].value)
         IN  IF out.raise = "JSONDecodeError"
             THEN [none |-> FALSE, value |-> keys[key].value, raise |-> "-"]
             ELSE [none |-> FALSE, value |-> out.value, raise |-> out.raise]

NoCacheCall == [op |-> "-", key |-> "-", value |-> NoValue, at |-> 0, live |-> FALSE,
                answer |-> [none |-> TRUE, value |-> NoValue, raise |-> "-"]]

\* a handler and its empty database
InitCacheOf(Enabled) ==
    /\ cache_db \in [enabled : Enabled, keys : {[k \in CacheKeys |-> NoCacheKey]}]
    /\ cache_call = NoCacheCall

InitCache == InitCacheOf({TRUE})

\* a call of set
cache_set(key, value, ttl) ==
    LET out == RedisHandler_set_value(cache_db.enabled, cache_db.keys, key, value, ttl, now)
    IN  /\ cache_db' = [cache_db EXCEPT !.keys = out.keys]
        /\ cache_call' = [op |-> "set", key |-> key, value |-> value, at |-> now,
                          live |-> FALSE,
                          answer |-> [none |-> TRUE, value |-> NoValue, raise |-> out.raise]]

\* a call of get; value is the value that the last set of the key passed,
\* live tells whether the key was set and has not expired
cache_get(key) ==
    /\ cache_call' = [op |-> "get", key |-> key, value |-> cache_db.keys[key].source,
                      at |-> now,
                      live |-> cache_db.keys[key].present /\ now < cache_db.keys[key].expires,
                      answer |-> RedisHandler_get_value(cache_db.enabled, cache_db.keys,
                                                        key, now)]
    /\ UNCHANGED cache_db

(***************************************************************************)
(* ml_model/data_preparation/export_transitions.py.  The dataset is the    *)
(* tracklists of its mixes, each the ids of its entries.                   *)
(***************************************************************************)
NullId == "null"                        \* the id of an entry whose id is null
EntryIds == {"y1", "y2", NullId}

NoTransitions == [exists |-> FALSE, lines |-> <<>>, runs |-> 0]
TransitionsHeader ==
    [from_track_id |-> "from_track_id", to_track_id |-> "to_track_id", frequency |-> 0]

\* transition_counts[(from_id, to_id)] += 1 on a dict, which keeps its keys
\* in the order of their first assignment
RECURSIVE Increment(_, _, _)
Increment(counts, from_id, to_id) ==
    IF counts = <<>>
    THEN <<[from_track_id |-> from_id, to_track_id |-> to_id, frequency |-> 1]>>
    ELSE IF Head(counts).from_track_id = from_id /\ Head(counts).to_track_id = to_id
    THEN <<[from_track_id |-> from_id, to_track_id |-> to_id,
            frequency |-> Head(counts).frequency + 1]>> \o Tail(counts)
    ELSE <<Head(counts)>> \o Increment(Tail(counts), from_id, to_id)

\* for i in range(len(tracklist) - 1), from position i on
RECURSIVE CountPairs(_, _, _)
CountPairs(counts, tracklist, i) ==
    IF i > Len(tracklist) - 1 THEN counts
    ELSE LET from_id == tracklist[i]
             to_id == tracklist[i + 1]
         IN  CountPairs(IF from_id # NullId /\ to_id # NullId
                        THEN Increment(counts, from_id, to_id) ELSE counts,
                        tracklist, i + 1)

\* for mix in dataset
RECURSIVE CountMixes(_, _)
CountMixes(counts, dataset) ==
    IF dataset = <<>> THEN counts
    ELSE CountMixes(CountPairs(counts, Head(dataset), 1), Tail(dataset))

\* the entries of a tracklist whose id is not null
RECURSIVE WithIds(_)
WithIds(tracklist) ==
    IF tracklist = <<>> THEN <<>>
    ELSE (IF Head(tracklist) = NullId THEN <<>> ELSE <<Head(tracklist)>>)
            \o WithIds(Tail(tracklist))

RECURSIVE EachWithIds(_)
EachWithIds(dataset) ==
    IF dataset = <<>> THEN <<>>
    ELSE <<WithIds(Head(dataset))>> \o EachWithIds(Tail(dataset))

\* mutant: entries with a null id are left out before the pairs are taken
extract_transitions_skip(dataset) == CountMixes(<<>>, EachWithIds(dataset))

\* extract_transitions: the items of the dict, in its order
extract_transitions(dataset) == CountMixes(<<>>, dataset)

\* x put into a list sorted by falling frequency, behind the items that
\* have its frequency
RECURSIVE InsertSorted(_, _)
InsertSorted(items, x) ==
    IF items = <<>> THEN <<x>>
    ELSE IF Head(items).frequency >= x.frequency
    THEN <<Head(items)>> \o InsertSorted(Tail(items), x)
    ELSE <<x>> \o items

\* sorted(transition_counts.items(), key=lambda x: x[1], reverse=True): the
\* sort is stable
RECURSIVE sorted(_)
sorted(items) ==
    IF items = <<>> THEN <<>>
    ELSE InsertSorted(sorted(SubSeq(items, 1, Len(items) - 1)), items[Len(items)])

\* export_to_csv: the file is opened with 'w'
export_to_csv(transition_counts, file) ==
    [exists |-> TRUE, lines |-> <<TransitionsHeader>> \o sorted(transition_counts),
     runs |-> file.runs + 1]

\* main() of export_transitions.py
export_main(maxRuns) ==
    /\ transitions_csv.runs < maxRuns
    /\ transitions_csv' = export_to_csv(extract_transitions(dataset_json), transitions_csv)

\* no call of the playlist store is being served, the cache is empty and
\* the transitions were not exported
InitRest ==
    /\ adding = [c \in Connections |-> NotAdding]
    /\ InitCache
    /\ transitions_csv = NoTransitions

\* the analyzer has not run and nobody has searched
InitIdle ==
    /\ InitPipeline({<<>>}, {NoTracks}, {NoCache})
    /\ InitSearch({[tracks |-> <<>>]})
    /\ InitRest

\* The tables are created if they do not exist; the accounts of UserIds
\* are registered, each with the profile the trigger gave it.
InitStore ==
    /\ playlist = {}
    /\ playlist_track = {}
    /\ playlistIds = 0
    /\ rowIds = 0
    /\ response = Answer("-", "none", 0, 0, "-", "-", NoRequest, 0, <<>>)
    /\ appendOnly = {}
    /\ users = {[user_id |-> "u1", username |-> "deejay_a1", email |-> "m1",
                 password |-> argon2_hash(Peppered("password1", "pepper"), 1),
                 role_id |-> 1],
                [user_id |-> "u2", username |-> "deejay_a2", email |-> "m2",
                 password |-> argon2_hash(Peppered("password2", "pepper"), 1),
                 role_id |-> 1]}
    /\ profiles = {[user_id |-> "u1"], [user_id |-> "u2"]}

\* The service starts without model files.
Init == InitStore /\ InitPrediction({NoCsv}, {NoModel}) /\ InitJWT /\ InitAuth({"pepper"})
           /\ InitIdle

Refuse(op, cred, p, status) ==
    /\ response' = Answer(op, cred, p, status, "-", "-", NoRequest, 0, <<>>)
    /\ UNCHANGED <<playlist, playlist_track, playlistIds, rowIds, appendOnly>>

\* the answer of the routes that modify a playlist to a caller that
\* user_modify_allowed turns down
NotAllowed(op, cred, p) ==
    Refuse(op, cred, p, IF is_playlist_public(playlist, p) THEN 403 ELSE 404)

\* the insert raises when no users row has the user_id of the token
\* (foreign key); the handler does not catch it
create_playlist(cred, public) ==
    /\ IF ~require_token(cred)
       THEN Refuse("create_playlist", cred, 0, 401)
       ELSE IF ~\E u \in users : u.user_id = cred
       THEN /\ response' = Answer("create_playlist", cred, 0, 500,
                                  "create_playlist", "raise", NoRequest, 0, <<>>)
            /\ UNCHANGED <<playlist, playlist_track, playlistIds, rowIds, appendOnly>>
       ELSE /\ playlist' = playlist \cup {[playlist_id |-> playlistIds + 1,
                                           user_id |-> cred, public |-> public]}
            /\ playlistIds' = playlistIds + 1
            /\ appendOnly' = appendOnly \cup {playlistIds + 1}
            /\ response' = Answer("create_playlist", cred, playlistIds + 1, 200,
                                  "create_playlist", "true", NoRequest, 0, <<>>)
            /\ UNCHANGED <<playlist_track, rowIds>>

delete_playlist(cred, p) ==
    IF ~require_token(cred)
    THEN Refuse("delete_playlist", cred, p, 401)
    ELSE LET out == PlaylistDatabase_delete_playlist(playlist, playlist_track, p, cred)
         IN  /\ playlist' = out.playlists
             /\ playlist_track' = out.tracks
             /\ appendOnly' = {q \in appendOnly : \E r \in out.playlists : r.playlist_id = q}
             /\ response' = Answer("delete_playlist", cred, p,
                                   IF out.ret = "true" THEN 200 ELSE 404,
                                   "delete_playlist", out.ret, NoRequest, 0, <<>>)
             /\ UNCHANGED <<playlistIds, rowIds>>

update_playlist(cred, p, named, public) ==
    IF ~require_token(cred)
    THEN Refuse("update_playlist", cred, p, 401)
    ELSE LET out == PlaylistDatabase_update_playlist(playlist, p, cred, named, public)
         IN  /\ playlist' = out.playlists
             /\ response' = Answer("update_playlist", cred, p,
                                   IF out.ret = "true" THEN 200 ELSE 404,
                                   "update_playlist", out.ret, NoRequest, 0, <<>>)
             /\ UNCHANGED <<playlist_track, playlistIds, rowIds, appendOnly>>

get_playlist(cred, p) ==
    /\ UNCHANGED <<playlist, playlist_track, playlistIds, rowIds, appendOnly>>
    /\ IF ~require_token(cred)
       THEN response' = Answer("get_playlist", cred, p, 401, "-", "-", NoRequest, 0, <<>>)
       ELSE IF ~user_modify_allowed(playlist, p, cred)
       THEN response' = Answer("get_playlist", cred, p,
                               IF is_playlist_public(playlist, p) THEN 403 ELSE 404,
                               "-", "-", NoRequest, 0, <<>>)
       ELSE IF get_playlist_by_id(playlist, p) = {}
       THEN response' = Answer("get_playlist", cred, p, 404, "-", "-", NoRequest, 0, <<>>)
       ELSE \E row \in get_playlist_by_id(playlist, p) :
               response' = Answer("get_playlist", cred, p, 200, "get_playlist_by_id",
                                  "true", NoRequest, 0, <<row>>)

get_playlist_tracks(cred, p) ==
    /\ UNCHANGED <<playlist, playlist_track, playlistIds, rowIds, appendOnly>>
    /\ LET user_id == optional_token(cred)
           allowed == IF user_id # "none"
                      THEN user_modify_allowed(playlist, p, user_id) ELSE FALSE
       IN  IF ~allowed /\ ~is_playlist_public(playlist, p)
           THEN response' = Answer("get_playlist_tracks", cred, p, 404,
                                   "-", "-", NoRequest, 0, <<>>)
           ELSE \E tracks \in get_tracks(playlist_track, p) :
                   response' = Answer("get_playlist_tracks", cred, p, 200, "get_tracks",
                                      "true", NoRequest, 0, tracks)

\* the store operation add_track_to_playlist dispatches to
Dispatch(body) ==
    IF body.position = "between"
    THEN IF IsNone(body.prev_sort) \/ IsNone(body.next_sort)
         THEN "add_track_to_end" ELSE "add_track_between"
    ELSE IF body.position = "start" THEN "add_track_to_start"
    ELSE "add_track_to_end"

Outcomes(call, p, youtube_id, body, id) ==
    IF call = "add_track_between"
    THEN add_track_between(playlist_track, playlist, p, youtube_id,
                           body.prev_sort.val, body.next_sort.val, id)
    ELSE IF call = "add_track_to_start"
    THEN add_track_to_start(playlist_track, playlist, p, youtube_id, id)
    ELSE add_track_to_end(playlist_track, playlist, p, youtube_id, id)

add_track_to_playlist(cred, p, youtube_id, body) ==
    IF ~require_token(cred)
    THEN Refuse("add_track_to_playlist", cred, p, 401)
    ELSE IF ~PlayListAddTrackRequest(body)
    THEN /\ response' = Answer("add_track_to_playlist", cred, p, 422,
                               "-", "-", WithId(body, youtube_id), 0, <<>>)
         /\ UNCHANGED <<playlist, playlist_track, playlistIds, rowIds, appendOnly>>
    ELSE IF ~user_modify_allowed(playlist, p, cred)
    THEN NotAllowed("add_track_to_playlist", cred, p)
    ELSE /\ \E out \in Outcomes(Dispatch(body), p, youtube_id, body, rowIds + 1) :
              /\ playlist_track' = out.tracks
              /\ rowIds' = IF out.ret = "true" THEN rowIds + 1 ELSE rowIds
              /\ appendOnly' = IF out.ret = "true" /\ Dispatch(body) # "add_track_to_end"
                               THEN appendOnly \ {p} ELSE appendOnly
              /\ response' = Answer("add_track_to_playlist", cred, p,
                                    IF out.ret = "raise" THEN 500 ELSE 200,
                                    Dispatch(body), out.ret, WithId(body, youtube_id),
                                    IF out.ret = "true" THEN rowIds + 1 ELSE 0, <<>>)
              /\ UNCHANGED <<playlist, playlistIds>>

remove_track_from_playlist(cred, p, playlist_track_id) ==
    IF ~require_token(cred)
    THEN Refuse("remove_track_from_playlist", cred, p, 401)
    ELSE IF ~user_modify_allowed(playlist, p, cred)
    THEN NotAllowed("remove_track_from_playlist", cred, p)
    ELSE LET out == delete_track_from_playlists(playlist_track, playlist_track_id, p)
         IN  /\ playlist_track' = out.tracks
             /\ appendOnly' = IF out.ret = "true" THEN appendOnly \ {p} ELSE appendOnly
             /\ response' = Answer("remove_track_from_playlist", cred, p,
                                   IF out.ret = "true" THEN 200 ELSE 404,
                                   "delete_track_from_playlists", out.ret,
                                   NoRequest, playlist_track_id, <<>>)
             /\ UNCHANGED <<playlist, playlistIds, rowIds>>

\* connection c begins to serve call for playlist p: the first SELECT
add_track_select(c, p, call) ==
    /\ adding[c].pc = "idle"
    /\ adding' = [adding EXCEPT ![c] =
                     [pc |-> "insert", call |-> call, playlist_id |-> p,
                      row |-> fetchone(playlist_track, p, call), seen |-> rowIds,
                      id |-> 0]]
    /\ UNCHANGED storeVars

\* connection c goes on from the row it read, to the commit
add_track_commit(c, youtube_id) ==
    LET a == adding[c]
        id == rowIds + 1
        outs == IF a.call = "add_track_to_end"
                THEN add_track_to_end_insert(a.row, playlist_track, playlist,
                                             a.playlist_id, youtube_id, id)
                ELSE add_track_to_start_insert(a.row, playlist_track, playlist,
                                               a.playlist_id, youtube_id, id)
    IN  /\ a.pc = "insert"
        /\ \E out \in outs :
              /\ playlist_track' = out.tracks
              /\ rowIds' = IF out.ret = "true" THEN id ELSE rowIds
              /\ appendOnly' = IF out.ret = "true" /\ a.call # "add_track_to_end"
                               THEN appendOnly \ {a.playlist_id} ELSE appendOnly
              /\ response' = Answer("add_track_to_playlist", "u1", a.playlist_id,
                                    IF out.ret = "raise" THEN 500 ELSE 200, a.call,
                                    out.ret,
                                    [youtube_id |-> youtube_id,
                                     position |-> IF a.call = "add_track_to_end"
                                                  THEN "end" ELSE "start",
                                     prev_sort |-> Absent, next_sort |-> Absent],
                                    IF out.ret = "true" THEN id ELSE 0, <<>>)
              /\ adding' = [adding EXCEPT ![c].pc = "idle",
                                          ![c].id = IF out.ret = "true" THEN id ELSE 0]
        /\ UNCHANGED <<playlist, playlistIds>>

\* Requests of the clients in Creds; at most maxP playlists and maxR
\* membership rows are ever created.
Register(Creds, Pubs, maxP) ==
    /\ playlistIds < maxP
    /\ \E cred \in Creds, public \in Pubs : create_playlist(cred, public)
    /\ UNCHANGED NotPlaylist

\* PlayListUpdateRequest: nothing supplied, a name only, or is_public
UpdateRequests == {<<FALSE, "none">>, <<TRUE, "none">>, <<FALSE, "true">>, <<FALSE, "false">>}

Maintain(Creds) ==
    \/ \E cred \in Creds, p \in PlaylistIds :
          delete_playlist(cred, p) /\ UNCHANGED NotPlaylist
    \/ \E cred \in Creds, p \in PlaylistIds, req \in UpdateRequests :
          update_playlist(cred, p, req[1], req[2]) /\ UNCHANGED NotPlaylist

Read(Creds) ==
    \/ \E cred \in Creds, p \in PlaylistIds :
          get_playlist(cred, p) /\ UNCHANGED NotPlaylist
    \/ \E cred \in Creds, p \in PlaylistIds :
          get_playlist_tracks(cred, p) /\ UNCHANGED NotPlaylist

\* the request bodies of one shape for playlist p
Requests(shape, p) ==
    CASE shape = "route" -> RouteRequests(p)
      [] shape = "plain" -> PlainRequests(p)
      [] shape = "order" -> OrderRequests(p)
      [] shape = "ends" -> EndRequests(p)

Edit(Creds, Ys, shape, maxR) ==
    /\ \/ /\ rowIds < maxR
          /\ \E cred \in Creds, p \in PlaylistIds, youtube_id \in Ys :
                \E body \in Requests(shape, p) :
                   add_track_to_playlist(cred, p, youtube_id, body)
       \/ \E cred \in Creds, p \in PlaylistIds, id \in 1..maxR :
             remove_track_from_playlist(cred, p, id)
    /\ UNCHANGED NotPlaylist

\* Every route and every caller; tracks are added at the start or the end.
Next ==
    \/ Register(Credentials, BOOLEAN, MaxPlaylists)
    \/ Maintain(Credentials)
    \/ Read(Credentials)
    \/ Edit(Credentials, {"y1"}, "plain", MaxRouteRows)

Spec == Init /\ [][Next]_vars

\* One owner and an anonymous caller adding tracks of every id with every
\* shape of request body.
NextAdd ==
    \/ Register({"u1"}, {FALSE}, MaxPlaylists)
    \/ Edit({"none", "u1"}, YoutubeIds, "route", MaxAddRows)

SpecAdd == Init /\ [][NextAdd]_vars

(***************************************************************************)
(* api/routers/user_router.py                                              *)
(***************************************************************************)
register_user(username, email, password, random_part, salt) ==
    IF get_user_by_username(users, username) # {} \/ get_user_by_email(users, email) # {}
    THEN /\ response' = Answer("register_user", "none", 0, 400, "-", "-",
                               NoRequest, 0, <<>>)
         /\ UNCHANGED <<users, profiles>>
    ELSE LET out == create_account(users, profiles, username, email, password, pepper,
                                   random_part, salt)
         IN  /\ users' = out.users
             /\ profiles' = out.profiles
             /\ response' = Answer("register_user", "none", 0,
                                   IF out.ret = "true" THEN 200 ELSE 500,
                                   "create_account", out.ret, NoRequest, 0, <<>>)

delete_account(cred) ==
    IF ~require_token(cred)
    THEN /\ response' = Answer("delete_account", cred, 0, 401, "-", "-",
                               NoRequest, 0, <<>>)
         /\ UNCHANGED <<users, profiles, playlist, playlist_track, appendOnly>>
    ELSE LET out == delete_user(users, profiles, playlist, playlist_track, cred)
         IN  /\ users' = out.users
             /\ profiles' = out.profiles
             /\ playlist' = out.playlists
             /\ playlist_track' = out.tracks
             /\ appendOnly' = {q \in appendOnly : \E r \in out.playlists : r.playlist_id = q}
             /\ response' = Answer("delete_account", cred, 0, 200, "delete_user",
                                   out.ret, NoRequest, 0, <<>>)

\* Registrations with the given inputs, and account deletions
AccountsOf(Creds, Names, Mails, Pws, Parts, Ss) ==
    \/ /\ \E username \in Names, email \in Mails, password \in Pws,
             random_part \in Parts, salt \in Ss :
             register_user(username, email, password, random_part, salt)
       /\ UNCHANGED <<playlist, playlist_track, playlistIds, rowIds, appendOnly>>
       /\ UNCHANGED NotUser
    \/ /\ \E cred \in Creds : delete_account(cred)
       /\ UNCHANGED <<playlistIds, rowIds>>
       /\ UNCHANGED NotUser

\* Registrations and account deletions
Accounts(Creds) == AccountsOf(Creds, Usernames, Emails, {"password1"}, RandomParts, {1})

\* Accounts come and go while their owners create playlists and add tracks.
NextUser ==
    \/ Accounts({"none"} \cup UserIds)
    \/ Register(UserIds, {FALSE}, MaxPlaylists)
    \/ Edit(UserIds, {"y1"}, "plain", MaxUserRows)

SpecUser == Init /\ [][NextUser]_vars

\* One owner editing private playlists with every pair of sort keys.
NextOrder ==
    \/ Register({"u1"}, {FALSE}, MaxPlaylists)
    \/ Edit({"u1"}, {"y1"}, "order", MaxRows)

SpecOrder == Init /\ [][NextOrder]_vars

\* One owner and one playlist whose rows are put at the ends of the range
\* of the sort keys.
NextEnds ==
    \/ Register({"u1"}, {FALSE}, 1)
    \/ Edit({"u1"}, {"y1"}, "ends", MaxEndRows)

SpecEnds == Init /\ [][NextEnds]_vars

\* what the statements of a connection leave alone besides the tables
NotConnection == <<userVars, serviceVars, clientVars, jwtVars, authVars, pipeVars,
                   searchVars, cacheVars, exportVars>>

\* One owner whose requests to add a track at an end of one playlist are
\* served on two connections at once.
NextAdding ==
    \/ Register({"u1"}, {FALSE}, 1)
    \/ /\ rowIds + Cardinality({c \in Connections : adding[c].pc = "insert"}) < MaxAddingRows
       /\ \E c \in Connections, call \in {"add_track_to_end", "add_track_to_start"} :
             add_track_select(c, 1, call)
       /\ UNCHANGED NotConnection
    \/ /\ \E c \in Connections : add_track_commit(c, "y1")
       /\ UNCHANGED NotConnection

SpecAdding == Init /\ [][NextAdding]_vars

\* The prediction service from every combination of files: the call of
\* start_background_training that the router makes when it is imported,
\* the training thread, and a client.
InitTrain ==
    /\ InitStore
    /\ InitPrediction({NoCsv, RepositoryCsv}, {NoModel, RepositoryModel})
    /\ InitJWT
    /\ InitAuth({"pepper"})
    /\ InitIdle

NextTrain ==
    \/ Start({1}, 1)
    \/ Train
    \/ Ask({"y1", "y3"}, {1})

SpecTrain == InitTrain /\ [][NextTrain]_vars

\* One caller of start_background_training and the threads it starts; a
\* started thread is scheduled until it returns.
NextRun ==
    \/ Start({1}, MaxCalls)
    \/ Train

SpecRun == InitTrain /\ [][NextRun]_vars /\ WF_vars(Train)

\* Two threads call start_background_training.
NextStart ==
    \/ Start(Callers, MaxCalls)
    \/ Train

SpecStart == InitTrain /\ [][NextStart]_vars

\* A service constructed over every table and every model, and a client.
InitPredict ==
    InitStore /\ InitPrediction(Csvs, Models) /\ InitJWT /\ InitAuth({"pepper"}) /\ InitIdle

NextPredict == Ask(TrackIds, 0..MaxTopK)

SpecPredict == InitPredict /\ [][NextPredict]_vars

\* The token service: a client that is issued tokens, alters them and
\* presents them while time passes.
NextToken ==
    \/ IssueToken /\ UNCHANGED NotJWT
    \/ Tamper /\ UNCHANGED NotJWT
    \/ Elapse /\ UNCHANGED NotJWT
    \/ Present /\ UNCHANGED NotJWT

SpecToken == Init /\ [][NextToken]_vars

\* what the session routes leave alone
NotSession == <<storeVars, userVars, serviceVars, clientVars, pipeVars, searchVars,
                 addVars, cacheVars, exportVars>>

\* Sessions: clients log in, alter their refresh cookie, refresh and log
\* out while time passes and accounts are deleted and registered.
Sessions(Names, Pws) ==
    \/ /\ \E username \in Names, password \in Pws : login(username, password)
       /\ UNCHANGED <<now, decoded, pepper, registering>>
       /\ UNCHANGED NotSession
    \/ /\ logout
       /\ UNCHANGED <<now, decoded, pepper, registering>>
       /\ UNCHANGED NotSession
    \/ /\ refresh_token_route
       /\ UNCHANGED <<now, decoded, pepper, registering>>
       /\ UNCHANGED NotSession
    \/ /\ TamperRefresh
       /\ UNCHANGED <<now, decoded, pepper, registering>>
       /\ UNCHANGED NotSession

\* The client sends the token of its refresh_token cookie in the
\* access_token cookie.
Exchange ==
    /\ refresh_token # NoToken
    /\ access_token' = refresh_token
    /\ UNCHANGED <<refresh_token, issued, authResponse>>
    /\ UNCHANGED <<now, decoded, pepper, registering>>
    /\ UNCHANGED NotSession

\* A request of the client to a route that depends on require_token
Request ==
    /\ Present
    /\ UNCHANGED <<authVars, NotSession>>

\* the clock of the refresh tokens
Clock(life, ticks) ==
    /\ Wait(life, ticks)
    /\ UNCHANGED <<access_token, issued, decoded>>
    /\ UNCHANGED <<authVars, NotSession>>

NextAuth ==
    \/ Sessions({"deejay_a1"}, {"password1"})
    \/ Clock(RefreshLifetime, 1)
    \/ AccountsOf(UserIds, {"deejay_a1", "deejay_a2"}, {"m1"}, {"password1"}, {1}, {1})

SpecAuth == Init /\ [][NextAuth]_vars

\* Roles: a client logs in, refreshes, and presents either of its cookies
\* in the place of the other while the access token runs out.
NextRole ==
    \/ Sessions({"deejay_a1"}, {"password1"})
    \/ Exchange
    \/ Request
    \/ Clock(Lifetime, 0)
    \/ AccountsOf({"u1"}, {"deejay_a1"}, {"m1"}, {"password1"}, {1}, {1})

SpecRole == Init /\ [][NextRole]_vars

\* what the calls of the user store leave alone
NotAccount == <<storeVars, serviceVars, clientVars, jwtVars, pepper, refresh_token,
                registering, pipeVars, searchVars, addVars, cacheVars, exportVars>>

\* The user store with and without PEPPER: accounts are created, deleted
\* and authenticated, and their owners change their passwords.
InitAccount == InitStore /\ InitPrediction({NoCsv}, {NoModel}) /\ InitJWT
                  /\ InitAuth({NoPepper, "pepper"}) /\ InitIdle

NextAccount ==
    \/ CreateAccount(Usernames, {"m1"}, Passwords, {1}, Salts) /\ UNCHANGED NotAccount
    \/ Authenticate(Usernames, Passwords) /\ UNCHANGED NotAccount
    \/ DeleteUser({"u1"}) /\ UNCHANGED NotAccount
    \/ /\ \E cred \in {"none"} \cup UserIds, current_password \in Passwords,
             new_password \in Passwords, salt \in Salts :
             change_password(cred, current_password, new_password, salt)
       /\ UNCHANGED <<profiles, NotAccount>>

SpecAccount == InitAccount /\ [][NextAccount]_vars

\* what the register requests leave alone
NotRegister == <<storeVars, serviceVars, clientVars, jwtVars, pepper, refresh_token,
                 pipeVars, searchVars, addVars, cacheVars, exportVars>>

\* Two clients register at once, while accounts are deleted.
NextRegister ==
    \/ Registering({1, 2}, Usernames, Emails, RandomParts) /\ UNCHANGED NotRegister
    \/ DeleteUser(UserIds) /\ UNCHANGED NotAccount

SpecRegister == Init /\ [][NextRegister]_vars

\* what the analyzer leaves alone
NotPipeline == <<storeVars, userVars, serviceVars, clientVars, jwtVars, authVars,
                 searchVars, addVars, cacheVars, exportVars>>

\* the API as it starts, next to the files Mixes, Files and Caches
InitAnalyzer(Mixes, Files, Caches) ==
    /\ InitStore
    /\ InitPrediction({NoCsv}, {NoModel})
    /\ InitJWT
    /\ InitAuth({"pepper"})
    /\ InitPipeline(Mixes, Files, Caches)
    /\ InitSearch({[tracks |-> <<>>]})
    /\ InitRest

\* the threads of a run
PipelineThreads ==
    \/ download_worker /\ UNCHANGED NotPipeline
    \/ analyzer_loop /\ UNCHANGED NotPipeline
    \/ writer_worker /\ UNCHANGED NotPipeline
    \/ failure_writer /\ UNCHANGED NotPipeline
    \/ run_pipeline /\ UNCHANGED NotPipeline

\* a dataset whose track v1 is in two mixes
TwoMixes == <<<<"v1", "v2">>, <<"v1">>>>

EmptyTracks == [exists |-> TRUE, lines |-> <<>>]
TracksOf(id) == [exists |-> TRUE, lines |-> <<Header, [youtube_id |-> id, bpm |-> 0]>>]

\* A run of the analyzer over a dataset that names a track in two mixes.
InitRun == InitAnalyzer({TwoMixes}, {NoTracks, TracksOf("v2")}, {NoCache})

NextPipeline ==
    \/ main(1) /\ UNCHANGED NotPipeline
    \/ PipelineThreads

SpecPipeline == InitRun /\ [][NextPipeline]_vars

\* a dataset whose track v1 is twice in one tracklist
TwiceInMix == <<<<"v1", "v1">>>>

\* Runs of the analyzer, one after the other, from no tracks.csv, from an
\* empty one and from one that holds another track.
InitRuns ==
    InitAnalyzer({TwiceInMix}, {NoTracks, EmptyTracks, TracksOf("v2")}, {NoCache})

NextRuns ==
    \/ main(MaxRuns) /\ UNCHANGED NotPipeline
    \/ PipelineThreads

SpecRuns == InitRuns /\ [][NextRuns]_vars

\* what search_track leaves alone
NotSearch == <<storeVars, userVars, serviceVars, clientVars, authVars, pipeVars,
               addVars, cacheVars, exportVars>>

\* The searcher over the tracks of tracks.csv and over none, an empty Redis
\* database, and clients that search while the keys age.
InitSearcher ==
    /\ InitStore
    /\ InitPrediction({NoCsv}, {NoModel})
    /\ InitJWT
    /\ InitAuth({"pepper"})
    /\ InitPipeline({<<>>}, {NoTracks}, {NoCache})
    /\ InitSearch(Searchers)
    /\ InitRest

\* what the calls of the cache handler leave alone
NotCache == <<storeVars, userVars, serviceVars, clientVars, authVars, pipeVars,
              searchVars, addVars, exportVars>>

\* an enabled and a disabled handler, each with an empty database
InitHandler ==
    /\ InitStore
    /\ InitPrediction({NoCsv}, {NoModel})
    /\ InitJWT
    /\ InitAuth({"pepper"})
    /\ InitPipeline({<<>>}, {NoTracks}, {NoCache})
    /\ InitSearch({[tracks |-> <<>>]})
    /\ adding = [c \in Connections |-> NotAdding]
    /\ InitCacheOf(BOOLEAN)
    /\ transitions_csv = NoTransitions

\* Callers set and get values of every type while the keys age.
NextCache ==
    \/ /\ \E key \in CacheKeys, value \in StoredValues, ttl \in Ttls :
             cache_set(key, value, ttl)
       /\ UNCHANGED <<jwtVars, NotCache>>
    \/ /\ \E key \in CacheKeys : cache_get(key)
       /\ UNCHANGED <<jwtVars, NotCache>>
    \/ /\ Wait(DEFAULT_TTL * TicksPerSecond, 1)
       /\ UNCHANGED <<access_token, issued, decoded, cacheVars, NotCache>>

SpecCache == InitHandler /\ [][NextCache]_vars

\* the tracklists of at most n entries
RECURSIVE Tracklists(_)
Tracklists(n) ==
    IF n = 0 THEN {<<>>}
    ELSE Tracklists(n - 1)
            \cup {Append(t, id) : t \in {u \in Tracklists(n - 1) : Len(u) = n - 1},
                                  id \in EntryIds}

\* the datasets of at most MaxMixes mixes
Datasets ==
    {<<>>} \cup {<<t>> : t \in Tracklists(MaxTracklist)}
           \cup {<<t, u>> : t \in Tracklists(MaxTracklist), u \in Tracklists(MaxTracklist)}

\* a transitions.csv left by an export of another dataset
StaleTransitions ==
    [exists |-> TRUE,
     lines |-> <<TransitionsHeader,
                 [from_track_id |-> "y2", to_track_id |-> "y2", frequency |-> 3]>>,
     runs |-> 0]

\* what the exporter leaves alone
NotExport == <<storeVars, userVars, serviceVars, clientVars, jwtVars, authVars, pipeVars,
               searchVars, addVars, cacheVars>>

\* every dataset, next to no transitions.csv and to a stale one
InitExport ==
    /\ InitStore
    /\ InitPrediction({NoCsv}, {NoModel})
    /\ InitJWT
    /\ InitAuth({"pepper"})
    /\ InitPipeline(Datasets, {NoTracks}, {NoCache})
    /\ InitSearch({[tracks |-> <<>>]})
    /\ adding = [c \in Connections |-> NotAdding]
    /\ InitCache
    /\ transitions_csv \in {NoTransitions, StaleTransitions}

\* The exporter is run, and run again.
NextExport == export_main(MaxExports) /\ UNCHANGED NotExport

SpecExport == InitExport /\ [][NextExport]_vars

NextSearch ==
    \/ /\ \E query \in Queries :
             search_track(query, 2, FALSE)
       /\ UNCHANGED <<jwtVars, NotSearch>>
    \/ /\ Wait(DEFAULT_TTL * TicksPerSecond, 1)
       /\ UNCHANGED <<access_token, issued, decoded, searchVars, NotSearch>>

SpecSearch == InitSearcher /\ [][NextSearch]_vars

\* failed_videos.json with an entry of v2 whose timestamp is no ISO date
BadCache ==
    [exists |-> TRUE,
     entries |-> [NoEntries EXCEPT !["v2"] =
                     [present |-> TRUE, error |-> "Cut failed",
                      timestamp |-> [iso |-> FALSE, day |-> 0], attempts |-> 1]]]

\* Runs of the analyzer days apart: a day or six days pass between runs.
InitRetry == InitAnalyzer({<<<<"v1", "v2">>>>}, {NoTracks}, {BadCache})

NextRetry ==
    \/ main(MaxRetries) /\ UNCHANGED NotPipeline
    \/ PipelineThreads
    \/ /\ pipe.main \in {"idle", "done"}
       /\ Tomorrow({1, 6}, MaxDays)
       /\ UNCHANGED NotPipeline

SpecRetry == InitRetry /\ [][NextRetry]_vars

\* One run over two ids and over one id queued twice; every thread that
\* can take a step is scheduled.
InitJoin == InitAnalyzer({TwiceInMix, <<<<"v1", "v2">>>>}, {NoTracks}, {NoCache})

SpecJoin == InitJoin /\ [][NextPipeline]_vars /\ WF_vars(PipelineThreads)

(***************************************************************************)
(* Properties.                                                             *)
(***************************************************************************)
RowOf(T, id) == CHOOSE r \in T : r.playlist_track_id = id

\* the last request was answered by the store operation call, which succeeded
Called(r, call) ==
    r.op = "add_track_to_playlist" /\ r.call = call /\ r.ret = "true"

\* a comes before b in every list get_tracks can return
Precedes(a, b) == DecLess(a.sort_key, b.sort_key)

\* C1: within one playlist no two membership rows have equal sort_key.
C1_UniqueSortKeys ==
    \A a, b \in playlist_track :
        (a.playlist_id = b.playlist_id /\ a.playlist_track_id # b.playlist_track_id)
            => a.sort_key # b.sort_key

\* A and B are neighbours in the order of the rows: A precedes B and every
\* other row precedes A or is preceded by B
Adjacent(A, B, rows) ==
    /\ Precedes(A, B)
    /\ \A c \in rows \ {A, B} : Precedes(c, A) \/ Precedes(B, c)

\* C2: an add_track_between that rebalances (next_sort - prev_sort below the
\* minimum gap), called with the sort keys of two adjacent rows A and B, puts
\* the new row strictly after A and strictly before B.
C2_BetweenAfterRebalance ==
    [][LET r == response'
           rows == PlaylistRows(playlist_track, r.playlist_id)
       IN  (/\ Called(r, "add_track_between")
            /\ DecLess(DecSub(r.request.next_sort.val, r.request.prev_sort.val),
                       PLAYLIST_MIN_GAP))
           => \A A, B \in rows :
                 (/\ A.sort_key = r.request.prev_sort.val
                  /\ B.sort_key = r.request.next_sort.val
                  /\ Adjacent(A, B, rows))
                 => /\ Precedes(RowOf(playlist_track', A.playlist_track_id),
                                RowOf(playlist_track', r.id))
                    /\ Precedes(RowOf(playlist_track', r.id),
                                RowOf(playlist_track', B.playlist_track_id))]_vars

Uniform(n) == {Dec(i * PLAYLIST_SORT_GAP) : i \in 1..n}

\* C4: a rebalance of a playlist keeps the relative order of its rows, gives
\* them the keys gap*1 .. gap*n, changes nothing else, leaves the keys 1000,
\* 2000, 3000 as they are, and rebalancing again changes nothing.
C4_Rebalance ==
    \A p \in PlaylistIds : \A T1 \in _rebalance(playlist_track, p) :
        LET rows == PlaylistRows(playlist_track, p)
            rows1 == PlaylistRows(T1, p)
            n == Cardinality(rows)
        IN  /\ \A a, b \in rows :
                  Precedes(a, b) => Precedes(RowOf(T1, a.playlist_track_id),
                                             RowOf(T1, b.playlist_track_id))
            /\ \A a \in rows :
                  RowOf(T1, a.playlist_track_id)
                     = [a EXCEPT !.sort_key = RowOf(T1, a.playlist_track_id).sort_key]
            /\ Cardinality(rows1) = n
            /\ SortKeys(rows1) = Uniform(n)
            /\ Cardinality(SortKeys(rows1)) = n
            /\ T1 \ rows1 = playlist_track \ rows
            /\ _rebalance(T1, p) = {T1}
            /\ (SortKeys(rows) = Uniform(n) /\ Cardinality(SortKeys(rows)) = n)
                  => T1 = playlist_track
            /\ (n = 3 /\ SortKeys(rows) = {Dec(1000), Dec(2000), Dec(3000)})
                  => SortKeys(rows1) = {Dec(1000), Dec(2000), Dec(3000)}

\* C4 witness: an insert has just rebalanced a playlist of three or more
\* rows whose keys are not uniform now, and another playlist holds a row
C4_Witness ==
    /\ Called(response, "add_track_between")
    /\ DecLess(DecSub(response.request.next_sort.val, response.request.prev_sort.val),
               PLAYLIST_MIN_GAP)
    /\ LET rows == PlaylistRows(playlist_track, response.playlist_id)
       IN  /\ Cardinality(rows) >= 3
           /\ SortKeys(rows) # Uniform(Cardinality(rows))
    /\ \E r \in playlist_track : r.playlist_id # response.playlist_id

\* the number of rows of the playlist of row r inserted before r, plus one
InsertedAs(r) ==
    Cardinality({q \in PlaylistRows(playlist_track, r.playlist_id) :
                    q.playlist_track_id <= r.playlist_track_id})

\* C5: N calls of add_track_to_end on an empty playlist give the sort keys
\* 1000, 2000, ..., 1000*N in insertion order.
C5_AppendMonotone ==
    \A r \in playlist_track :
        r.playlist_id \in appendOnly => r.sort_key = Dec(1000 * InsertedAs(r))

\* C5 witness: three tracks were appended to an empty playlist
C5_Witness ==
    \E p \in appendOnly :
        /\ Cardinality(PlaylistRows(playlist_track, p)) = 3
        /\ Called(response, "add_track_to_end") /\ response.playlist_id = p

\* C6: add_track_to_start gives the new row the sort_key m / 2, where m is
\* the minimum sort_key of the playlist, or the gap (1000) if it is empty;
\* the first track of an empty playlist gets 500.
C6_StartHalvesMinimum ==
    [][LET r == response'
           rows == PlaylistRows(playlist_track, r.playlist_id)
           m == IF rows = {} THEN Dec(PLAYLIST_SORT_GAP) ELSE MinSort(rows)
           new == RowOf(playlist_track', r.id)
       IN  Called(r, "add_track_to_start")
           => /\ DecAdd(new.sort_key, new.sort_key) = m
              /\ rows = {} => new.sort_key = Dec(500)]_vars

\* the track id cannot be resolved: neither dataset knows it
Unresolvable(youtube_id) == youtube_id \notin Dataset \cup TracksCsv

\* C7: an add of a track whose metadata cannot be resolved returns false and
\* inserts no row.
C7_UnresolvedRejected ==
    /\ (/\ response.op = "add_track_to_playlist"
        /\ response.call # "-"
        /\ Unresolvable(response.request.youtube_id))
       => response.ret = "false" /\ response.id = 0
    /\ \A r \in playlist_track : ~Unresolvable(r.youtube_track_id)

\* C8: an add-track request with position "between" that lacks prev_sort or
\* next_sort is rejected by the schema (422) and inserts no row.
C8_BetweenNeedsBothKeys ==
    (/\ response.op = "add_track_to_playlist"
     /\ response.request.position = "between"
     /\ IsNone(response.request.prev_sort) \/ IsNone(response.request.next_sort))
    => response.status = 422 /\ response.call = "-" /\ response.id = 0

\* the caller of the last request may see playlist p: it exists and is
\* public or owned by the user the caller's valid token names
Visible(p) ==
    \E r \in playlist : r.playlist_id = p /\ (r.public \/ r.user_id = response.cred)

\* C9: get-tracks answers the rows of the playlist only if it is public or
\* the caller's valid token names its owner; every other caller gets the 404
\* of a nonexistent playlist, whatever the playlist holds.
C9_TracksVisibility ==
    response.op = "get_playlist_tracks"
    => IF Visible(response.playlist_id)
       THEN /\ response.status = 200
            /\ response.body \in get_tracks(playlist_track, response.playlist_id)
       ELSE response = Answer("get_playlist_tracks", response.cred, response.playlist_id,
                              404, "-", "-", NoRequest, 0, <<>>)

\* C9 witness: a user with a valid token asked for the tracks of another
\* user's private playlist that holds rows, and got 404
C9_Witness ==
    /\ response.op = "get_playlist_tracks"
    /\ response.status = 404
    /\ response.cred \in UserIds
    /\ \E r \in playlist : /\ r.playlist_id = response.playlist_id
                           /\ ~r.public /\ r.user_id # response.cred
    /\ PlaylistRows(playlist_track, response.playlist_id) # {}

\* C10: get with a valid token answers the playlist whenever the caller owns
\* it or it is public, and 404 otherwise.
C10_GetPlaylist ==
    (response.op = "get_playlist" /\ response.cred \in UserIds)
    => IF Visible(response.playlist_id)
       THEN /\ response.status = 200
            /\ \E r \in playlist : r.playlist_id = response.playlist_id
                                   /\ response.body = <<r>>
       ELSE response.status = 404

\* the playlist row with id p, as a set
PlaylistRow(P, p) == {r \in P : r.playlist_id = p}

\* C11: a step that changes the row or the membership rows of an existing
\* playlist answers an update, delete, add-track or remove-track request
\* for that playlist whose valid token names the playlist's owner.
C11_OwnerOnly ==
    [][\A p \in PlaylistIds :
          (/\ PlaylistRow(playlist, p) # {}
           /\ \/ PlaylistRow(playlist', p) # PlaylistRow(playlist, p)
              \/ PlaylistRows(playlist_track', p) # PlaylistRows(playlist_track, p))
          => /\ response'.playlist_id = p
             /\ response'.op \in {"update_playlist", "delete_playlist",
                                  "add_track_to_playlist", "remove_track_from_playlist"}
             /\ \E r \in playlist : r.playlist_id = p /\ r.user_id = response'.cred]_vars

\* C11 witness: a user with a valid token asked to add a track to another
\* user's public playlist that holds a row, and was refused
C11_Witness ==
    /\ response.op = "add_track_to_playlist"
    /\ response.status = 403
    /\ response.cred \in UserIds
    /\ \E r \in playlist : /\ r.playlist_id = response.playlist_id
                           /\ r.public /\ r.user_id # response.cred
    /\ PlaylistRows(playlist_track, response.playlist_id) # {}

\* C12: delete_playlist returns true exactly when the playlist exists with
\* the caller as owner, and then the row is gone; false exactly when it
\* exists with another owner; none exactly when it does not exist; in the
\* last two cases no row of either table changes.
C12_DeleteOutcomes ==
    [][response'.call = "delete_playlist"
       => LET p == response'.playlist_id
              exists == PlaylistRow(playlist, p) # {}
              owned == \E r \in playlist : r.playlist_id = p /\ r.user_id = response'.cred
          IN  /\ response'.ret = (IF owned THEN "true" ELSE IF exists THEN "false" ELSE "none")
              /\ owned => /\ playlist' = playlist \ PlaylistRow(playlist, p)
                          /\ PlaylistRow(playlist', p) = {}
              /\ ~owned => playlist' = playlist /\ playlist_track' = playlist_track]_vars

\* C12 witness: a delete of another user's playlist returned false and the
\* playlist is still there
C12_Witness ==
    /\ response.call = "delete_playlist"
    /\ response.ret = "false"
    /\ \E r \in playlist : r.playlist_id = response.playlist_id /\ r.user_id # response.cred

\* C13: delete_track_from_playlists removes exactly the rows whose
\* playlist_track_id and playlist_id both match, of which there is at most
\* one, and returns true exactly when there was one; every other row, of
\* the same youtube track or of another playlist, is kept.
C13_DeleteTrack ==
    [][response'.call = "delete_track_from_playlists"
       => LET hit == {r \in playlist_track :
                         /\ r.playlist_track_id = response'.id
                         /\ r.playlist_id = response'.playlist_id}
          IN  /\ Cardinality(hit) <= 1
              /\ playlist_track' = playlist_track \ hit
              /\ response'.ret = (IF hit # {} THEN "true" ELSE "false")]_vars

\* C13 witness: a row was removed from a playlist that still holds another
\* row of the same youtube track
C13_Witness ==
    /\ response.call = "delete_track_from_playlists"
    /\ response.ret = "true"
    /\ \E r \in PlaylistRows(playlist_track, response.playlist_id) :
          r.youtube_track_id = "y1" /\ r.playlist_track_id # response.id

\* C13 witness: the owner of two playlists named a row of one with the id
\* of the other, and nothing was removed
C13_WitnessOther ==
    /\ response.call = "delete_track_from_playlists"
    /\ response.ret = "false"
    /\ \E r \in playlist_track : /\ r.playlist_track_id = response.id
                                 /\ r.playlist_id # response.playlist_id

\* C14: a profile row exists for a user_id exactly when a user row with that
\* user_id exists, every playlist belongs to an existing user and every
\* membership row to an existing playlist.
C14_Cascade ==
    /\ {r.user_id : r \in profiles} = {r.user_id : r \in users}
    /\ \A r \in playlist : \E u \in users : u.user_id = r.user_id
    /\ \A r \in playlist_track : \E q \in playlist : q.playlist_id = r.playlist_id

\* C14 witness: an account was deleted after playlists and membership rows
\* had been created; no row of a deleted user is left while the playlist
\* of the other user is still there
C14_Witness ==
    /\ response.op = "delete_account"
    /\ response.status = 200
    /\ playlistIds = 2 /\ rowIds = 2
    /\ Cardinality(playlist) = 1
    /\ Cardinality(playlist_track) = 1
    /\ Cardinality(users) = 1

\* C15: a request to a /prediction route that the readiness dependency
\* meets while the service is not ready is refused with 503.
C15_NotReadyRefused ==
    (predResponse.op # "-" /\ ~predResponse.gate) => predResponse.status = 503

\* C16: at most one background training thread is alive at any time.
C16_OneTrainingThread == Cardinality(Alive) <= 1

\* the thread t returns from __init_model in this step
Returns(t) == threads[t].pc # "done" /\ threads'[t].pc = "done"

\* C17: a training run begins an export-then-train round only while no
\* validation has reported ready; when it returns it has run at most
\* max_attempts rounds and the state is 'Ready' with the predictor loaded
\* and ready set, or 'Failed to train' with the model not ready and nothing
\* raised, or 'Error: <message>' with ready false and the message of what
\* was raised; and every run that is started returns.
C17_TrainingRun ==
    /\ [][\A t \in ThreadIds :
            /\ threads'[t].rounds > threads[t].rounds => ~threads[t].validated
            /\ Returns(t) =>
                  /\ threads'[t].rounds <= threads'[t].max_attempts
                  /\ \/ /\ _state' = State("Ready")
                        /\ _ready' /\ _predictor'.loaded /\ threads'[t].err = "-"
                     \/ /\ _state' = State("Failed to train")
                        /\ ~_ready' /\ threads'[t].err = "-"
                        /\ threads'[t].attempt = threads'[t].max_attempts
                     \/ /\ _state' = Error("Error", threads'[t].err)
                        /\ ~_ready' /\ threads'[t].err # "-"]_vars
    /\ \A t \in ThreadIds : is_alive(threads[t]) ~> threads[t].pc = "done"

\* C17 witness: a run started with max_attempts = MaxAttempts has returned
\* with state 'Ready' after an export-then-train round
C17_Witness ==
    \E t \in ThreadIds : /\ threads[t].pc = "done"
                          /\ threads[t].rounds >= 1
                          /\ threads[t].max_attempts = MaxAttempts
                          /\ _state = State("Ready")

\* C18: recommend_next calls the predictor only while the service is ready
\* with a predictor loaded; a call that meets a service that is not ready,
\* or one without predictor, ends with the RuntimeError that names the
\* state the service has at that moment, and has not called the predictor.
C18_NotReadyFails ==
    /\ [](request.pc = "suggest" => _ready /\ _predictor.loaded)
    /\ [][request' # request =>
            /\ (request.pc = "ready?" /\ ~_ready) => request'.pc = "raise"
            /\ (request.pc = "predictor?" /\ ~_predictor.loaded) => request'.pc = "raise"
            /\ request.pc = "raise" =>
                  /\ predResponse'.raised = "RuntimeError"
                  /\ predResponse'.state = _state
                  /\ ~predResponse'.called]_vars

\* C18 witness: a request met validated files while the training thread
\* had not loaded the predictor yet, and failed naming 'Loading predictor'
C18_Witness ==
    /\ predResponse.raised = "RuntimeError"
    /\ predResponse.state = State("Loading predictor")
    /\ ~predResponse.called
    /\ _ready

\* C19: on a ready service a call of the predictor for a track id that is
\* not in the tracks table ends with KeyError and HTTP 404, never with a
\* success; for an id of the table a success holds at most top_k pairs of
\* other tracks of the table, in descending order of score.
C19_NotFound ==
    (predResponse.op = "recommend_next_track" /\ predResponse.called /\ _ready) =>
        LET results == predResponse.results
        IN  IF predResponse.track_id \notin Range(_predictor.tracks)
            THEN /\ predResponse.raised = "KeyError"
                 /\ predResponse.status = 404
                 /\ results = <<>>
            ELSE /\ predResponse.raised # "KeyError"
                 /\ predResponse.status # 404
                 /\ predResponse.status = 200 =>
                       /\ Len(results) <= predResponse.top_k
                       /\ \A i \in 1..Len(results) :
                             /\ results[i][1] # predResponse.track_id
                             /\ results[i][1] \in Range(_predictor.tracks)
                             /\ results[i][2] = _predictor.proba[results[i][1]]
                       /\ \A i \in 1..(Len(results) - 1) :
                             results[i][2] >= results[i + 1][2]

\* C19 witness: a ready service with a table of tracks turned down an id
\* that the table does not hold.
C19_Witness ==
    /\ _ready
    /\ predResponse.called
    /\ Len(_predictor.tracks) >= 2
    /\ predResponse.track_id \notin Range(_predictor.tracks)
    /\ predResponse.status = 404

\* C19, the other case: top_k cut the list of a present id, and the sort
\* moved a later row of the table to the front.
C19_WitnessPresent ==
    /\ _ready
    /\ predResponse.called
    /\ predResponse.status = 200
    /\ predResponse.track_id \in Range(_predictor.tracks)
    /\ Len(predResponse.results) = 1
    /\ Len(_predictor.tracks) = 3
    /\ predResponse.results[1][1] = _predictor.tracks[3]
    /\ predResponse.results[1][2] = 1

\* the instant a token expires: 30 minutes after the second it was issued
\* in (the exp claim counts whole seconds), in ticks
ExpiryOf(issue) ==
    TicksPerSecond * ((issue.at \div TicksPerSecond) + 60 * ACCESS_TOKEN_EXPIRE_MINUTES)

C20_WitnessTampered ==
    /\ decoded.token # NoToken
    /\ decoded.token # decoded.issued.token
    /\ decoded.at > ExpiryOf(decoded.issued)
    /\ decoded.answer.detail = "Invalid token"

\* the refresh_token cookie verifies and is not expired at the instant at
ValidRefresh(cookie, at) ==
    /\ cookie # NoToken
    /\ cookie.signature = Sign(cookie.payload, JWT_SECRET)
    /\ at < cookie.payload.exp * TicksPerSecond

\* the step is an answer of GET /auth/refresh
Refreshed == authResponse'.op = "refresh_token" /\ <<authResponse, access_token>>' # <<authResponse, access_token>>

\* C21: a refresh sets a new access-token cookie only when the refresh-token
\* cookie is present, unexpired and validly signed and its user_id names a
\* row of users; otherwise it answers missing / expired / invalid / not
\* found and sets no cookie; the new access token carries the username and
\* role_id of that row, and the refresh-token cookie is left as it is.
C21_Refresh ==
    [][Refreshed =>
        /\ refresh_token' = refresh_token
        /\ IF /\ ValidRefresh(refresh_token, now)
              /\ \E r \in users : r.user_id = refresh_token.payload.user_id
           THEN /\ authResponse'.status = 200
                /\ \E r \in users :
                      /\ r.user_id = refresh_token.payload.user_id
                      /\ access_token'.payload.user_id = r.user_id
                      /\ access_token'.payload.username = r.username
                      /\ access_token'.payload.role_id = r.role_id
                /\ require_token_cookie(access_token', now).status = 200
           ELSE /\ access_token' = access_token
                /\ authResponse'.status \in {401, 404}
                /\ authResponse'.detail =
                      IF refresh_token = NoToken THEN "Missing refresh token"
                      ELSE IF refresh_token.signature # Sign(refresh_token.payload, JWT_SECRET)
                      THEN "Invalid refresh token"
                      ELSE IF ~ValidRefresh(refresh_token, now)
                      THEN "Refresh token expired"
                      ELSE "User not found"]_vars

\* C21 witness: a refresh token issued to one account was refreshed after
\* the account was deleted and its user_id given to another account: the
\* access token names the other account.
C21_Witness ==
    /\ authResponse.op = "refresh_token"
    /\ authResponse.status = 200
    /\ refresh_token # NoToken
    /\ access_token.payload.user_id = "u1"
    /\ access_token.payload.username = "deejay_a2"

\* C21, a refusal: the account of the refresh token is gone.
C21_WitnessNotFound ==
    /\ authResponse.op = "refresh_token"
    /\ authResponse.status = 404
    /\ ValidRefresh(refresh_token, now)

\* C21, a refusal: the refresh token is past its expiry.
C21_WitnessExpired ==
    /\ authResponse.op = "refresh_token"
    /\ authResponse.detail = "Refresh token expired"
    /\ now >= RefreshLifetime

\* C22: right after create_account made an account, authenticate_user with
\* its username returns true for its password and false for every other
\* password; authenticate_user returns false for a username that has no
\* account, and never raises.
C22_AuthRoundTrip ==
    /\ [][(authResponse'.op = "create_account" /\ authResponse'.ret = "true"
              /\ users' # users) =>
            \A p \in Passwords :
                LET out == authenticate_user(users', authResponse'.username, p, pepper)
                IN  /\ out.ret = (p = authResponse'.password)
                    /\ out.raise = "-"]_vars
    /\ [](authResponse.op = "authenticate_user" =>
            /\ authResponse.detail = "-"
            /\ (~\E r \in users : r.username = _sanitize_username(authResponse.username))
                  => authResponse.ret = "false")

\* C22 witness: an account made in this run, under a name that is
\* sanitised, was authenticated with its password.
C22_Witness ==
    /\ authResponse.op = "authenticate_user"
    /\ authResponse.ret = "true"
    /\ authResponse.username = "DeeJay-A1"
    /\ authResponse.password = "password3"
    /\ \E r \in users : r.username = "deejay_a1" /\ r.password.salt = 2

\* C22, the other cases: a wrong password, and a username without account.
C22_WitnessRefused ==
    /\ authResponse.op = "authenticate_user"
    /\ authResponse.ret = "false"
    /\ pepper # NoPepper
    /\ \E r \in users : r.username = _sanitize_username(authResponse.username)

C22_WitnessNoAccount ==
    /\ authResponse.op = "authenticate_user"
    /\ authResponse.ret = "false"
    /\ ~\E r \in users : r.username = _sanitize_username(authResponse.username)

\* the username of the account that the user_id names
NameOf(U, user_id) == (CHOOSE r \in U : r.user_id = user_id).username

\* the step is an answer of POST /user/change-password
PasswordRequest ==
    authResponse'.op = "change_password" /\ <<authResponse, users>>' # <<authResponse, users>>

\* C23: a change-password request succeeds only if current_password
\* authenticates the caller and new_password differs from it; after the
\* success the caller authenticates with the new password and not with the
\* old one; a request turned down for a wrong current password or an
\* identical new password leaves the stored hash as it is.
C23_ChangePassword ==
    [][PasswordRequest =>
        LET r == authResponse'
        IN  /\ r.status = 200 =>
                 /\ \E row \in users : row.user_id = r.user_id
                 /\ authenticate_user(users, NameOf(users, r.user_id), r.password, pepper).ret
                 /\ r.new_password # r.password
                 /\ authenticate_user(users', NameOf(users, r.user_id), r.new_password,
                                      pepper).ret
                 /\ ~authenticate_user(users', NameOf(users, r.user_id), r.password,
                                       pepper).ret
                 /\ \A row \in users : row.user_id # r.user_id => row \in users'
            /\ r.status # 200 => users' = users
            /\ (/\ \E row \in users : row.user_id = r.user_id
                /\ authenticate_user(users, NameOf(users, r.user_id), r.password, pepper).ret
                /\ r.new_password # r.password) => r.status = 200
            /\ r.status = 400 => r.new_password = r.password
            /\ (r.status = 401 /\ \E row \in users : row.user_id = r.user_id) =>
                 ~authenticate_user(users, NameOf(users, r.user_id), r.password, pepper).ret]_vars

\* C23 witness: a password was changed; the account opens with the new
\* password and not with the old one.
C23_Witness ==
    /\ authResponse.op = "change_password"
    /\ authResponse.status = 200
    /\ \E row \in users :
          /\ row.user_id = authResponse.user_id
          /\ authenticate_user(users, row.username, authResponse.new_password, pepper).ret
          /\ ~authenticate_user(users, row.username, authResponse.password, pepper).ret

\* C23, the refusals: an identical new password, a wrong current password.
C23_WitnessIdentical ==
    authResponse.op = "change_password" /\ authResponse.status = 400

C23_WitnessWrong ==
    /\ authResponse.op = "change_password"
    /\ authResponse.status = 401
    /\ authResponse.detail = "Current password is incorrect"
    /\ pepper # NoPepper

\* the client c is answered in this step
Answered(c) == registering[c].pc # "idle" /\ registering'[c].pc = "idle"

\* an account holds the sanitised username or the email of the request of c
Duplicate(c) ==
    \E r \in users : \/ r.username = _sanitize_username(registering[c].username)
                     \/ r.email = registering[c].email

\* C24: a register request that is answered while an account holds its
\* sanitised username or its email is answered with 400 and creates no
\* row, however the steps of two register requests interleave.
C24_DuplicateRejected ==
    [][\A c \in {1, 2} :
          (Answered(c) /\ Duplicate(c)) =>
              /\ authResponse'.status = 400
              /\ users' = users]_vars

\* C24, the part that the tables enforce: no two rows of users share a
\* username, an email or a user_id.
C24_UniqueRows ==
    \A a, b \in users :
        (a.username = b.username \/ a.email = b.email \/ a.user_id = b.user_id) => a = b

\* C29: within one run of the pipeline each track id is downloaded at most
\* once, also when the dataset names it in several mixes.
C29_AttemptedOnce == \A v \in VideoIds : attempted[v] <= 1

\* the rows of tracks.csv
Rows(file) == SubSeq(file.lines, 2, Len(file.lines))

IsPrefix(p, q) == Len(p) <= Len(q) /\ SubSeq(q, 1, Len(p)) = p

\* C27: after any number of runs tracks.csv holds at most one row for each
\* youtube_id and its header is its first line and no other; a step of the
\* writer keeps the lines that are there and appends a row only for an id
\* that no row has.
C27_OneRowPerId ==
    /\ [](/\ \A i, j \in 2..Len(csv_path.lines) :
                 csv_path.lines[i].youtube_id = csv_path.lines[j].youtube_id => i = j
          /\ \A i \in 1..Len(csv_path.lines) : (csv_path.lines[i] = Header) <=> (i = 1))
    /\ [][/\ IsPrefix(csv_path.lines, csv_path'.lines)
          /\ Len(csv_path'.lines) <= Len(csv_path.lines) + 1
          /\ (csv_path.lines # <<>> /\ csv_path'.lines # csv_path.lines) =>
                 csv_path'.lines[Len(csv_path'.lines)].youtube_id \notin RowIds(csv_path)]_vars

\* C27: the writer was given two results of one track and wrote one row
C27_Witness ==
    /\ pipe.writer = "done"
    /\ analyze_bar.n = 2
    /\ analyze_bar.results = 1
    /\ Len(csv_path.lines) = 2

\* C27: the second run appended its row below the row that was there
C27_WitnessSecondRun ==
    /\ runs = 2
    /\ pipe.main = "done"
    /\ csv_path.lines = <<Header, [youtube_id |-> "v2", bpm |-> 0],
                          [youtube_id |-> "v1", bpm |-> 2]>>

\* the failures of the run that download_worker met
DownloadFailures ==
    {f \in failures : f.error_msg \notin {"File missing for analysis", "Analyze error"}}

\* C25: when a run has ended, failed_videos.json has an entry for every id
\* that failed in it, whether in the download thread or in a worker process
\* of the pool.
C25_FailureRecorded ==
    pipe.main = "done" =>
        \A f \in failures : cache_path.exists /\ cache_path.entries[f.video_id].present

\* the part of C25 about the download thread
C25_DownloadFailureRecorded ==
    pipe.main = "done" =>
        \A f \in DownloadFailures :
            cache_path.exists /\ cache_path.entries[f.video_id].present

\* C26: run_pipeline terminates whatever each id meets.  Every id taken
\* from download_q gets one task_done (unfinished_tasks counts the items
\* still queued, the one in work and the None the thread ended on), so
\* download_q.join() returns; the analyzer loop, the writer and the
\* failure writer end, and run_pipeline returns after them.  At each of the
\* two joins with a timeout the thread has ended or its None is queued, so
\* that it waits for nothing but its own backlog.
C26_Terminates ==
    /\ [](unfinished_tasks =
            Len(download_q)
              + (IF pipe.download \in {"run", "task_done"} THEN 1 ELSE 0)
              + (IF pipe.download = "done" THEN DOWNLOAD_THREADS ELSE 0))
    /\ (pipe.main = "join_download") ~>
          (pipe = Threads("done", "done", "done", "done", "done"))
    /\ [](pipe.main = "done" /\ video_ids # <<>> =>
            /\ pipe.analyzer = "done" /\ pipe.writer = "done" /\ pipe.failure = "done"
            /\ \A v \in VideoIds : attempted[v] = Count(v, video_ids)
            /\ download_q \in {<<>>, <<Stop>>})
    /\ [](/\ pipe.main = "join_writer" =>
                (pipe.writer = "done" \/ Count(StopResult, result_q) = 1)
          /\ pipe.main = "join_failure" =>
                (pipe.failure = "done" \/ Count(StopFailure, failure_q) = 1))

\* C26: a run ended in which one id failed in the download thread and the
\* other in the pool
C26_Witness ==
    /\ pipe = Threads("done", "done", "done", "done", "done")
    /\ video_ids = <<"v1", "v2">>
    /\ \E f \in DownloadFailures : f.video_id = "v1"
    /\ [video_id |-> "v2", error_msg |-> "Analyze error"] \in failures

\* the age in days of the entry of v in failed_videos.json
Age(v) == today - cache_path.entries[v].timestamp.day

\* C28: when a run starts, an id of the dataset whose entry in
\* failed_videos.json is less than 7 days old is not queued, one whose entry
\* is more than 7 days old and that has no row in tracks.csv is queued, and
\* one whose timestamp cannot be parsed is not queued.
C28_RetryAfterWeek ==
    [][runs' = runs + 1 =>
          \A v \in Range(all_video_ids(dataset_json)) :
              LET entry == cache_path.entries[v]
                  recorded == cache_path.exists /\ entry.present
              IN  /\ (recorded /\ ~entry.timestamp.iso) => v \notin Range(video_ids')
                  /\ (recorded /\ entry.timestamp.iso /\ Age(v) < RETRY_AFTER_DAYS) =>
                         v \notin Range(video_ids')
                  /\ (recorded /\ entry.timestamp.iso /\ Age(v) > RETRY_AFTER_DAYS
                         /\ v \notin RowIds(csv_path)) =>
                         v \in Range(video_ids')]_vars

\* C28: a run that started six days after v1 failed has nothing to do
C28_Witness ==
    /\ runs = 2
    /\ pipe.main = "done"
    /\ video_ids = <<>>
    /\ cache_path.entries["v1"].present
    /\ Age("v1") = 6

\* C28: a run that started eight days after v1 failed queues v1, and not v2
C28_WitnessRetried ==
    /\ runs = 2
    /\ pipe.main = "join_download"
    /\ video_ids = <<"v1">>
    /\ pipe.failure = "load"
    /\ cache_path.entries["v1"].present
    /\ Age("v1") = 8
    /\ ~cache_path.entries["v2"].timestamp.iso

\* the last two calls of search_track had the same arguments, and the key
\* the first of them left had not expired at the second
Repeated ==
    /\ searched.previous.query # "-"
    /\ searched.last.query = searched.previous.query
    /\ searched.last.top = searched.previous.top
    /\ searched.last.return_null_ids = searched.previous.return_null_ids
    /\ searched.last.at < searched.previous.expires

\* C30: the second of two consecutive calls of search_track with the same
\* arguments within the lifetime of the key returns the list of the first
\* and does not run the scorer, also when the list is empty.
C30_SecondFromCache ==
    Repeated => (searched.last.result = searched.previous.result /\ ~searched.last.scored)

\* the part of C30 about the lists returned
C30_SameResult == Repeated => searched.last.result = searched.previous.result

\* the part of C30 about lists that are not empty
C30_FromCache ==
    (Repeated /\ searched.previous.result # <<>>) => ~searched.last.scored

\* C39: the error text download_worker records for an id was assigned by
\* the attempt of that id, whatever the counter error_count holds.
C39_OwnErrorText ==
    [][(pipe.download = "run" /\ pipe'.download = "task_done" /\ failure_q' # failure_q) =>
          /\ download'.error_of = download.vid
          /\ failure_q'[Len(failure_q')].error_msg = download'.error_msg]_vars

\* the part of C39 about the failures the downloader, the missing file and
\* the cut report: their text is assigned in the attempt
C39_OwnTextUnlessException ==
    [][(pipe.download = "run" /\ pipe'.download = "task_done" /\ failure_q' # failure_q
          /\ download'.error_of # download.vid) =>
          /\ download.error_count <= 1
          /\ download'.error_count = download.error_count + 1
          /\ download'.error_msg = download.error_msg]_vars

\* C40: the list search_track returns was stored by a call with the same
\* query (the keys of calls that differ in top or flag differ, C40_TopInKey),
\* and is what the scorer gives for the arguments of the call.
C40_OwnKey ==
    searched.last.query # "-" =>
        /\ searched.last.by = searched.last.query
        /\ searched.last.result =
              Matches(track_searcher, searched.last.query, searched.last.top)

\* the part of C40 about top: calls that differ in top have different keys
C40_TopInKey ==
    \A q1, q2 \in Queries, t1, t2 \in Tops, r1, r2 \in BOOLEAN :
        make_key("track_search", q1, t1, r1) = make_key("track_search", q2, t2, r2) =>
            (t1 = t2 /\ r1 = r2 /\ Lower(q1) = Lower(q2))

\* the failures failure_writer has written, over all ids
RECURSIVE Written(_)
Written(Vs) ==
    IF Vs = {} THEN 0
    ELSE LET v == CHOOSE x \in Vs : TRUE
         IN  cache_path.entries[v].attempts + Written(Vs \ {v})

\* C38: no result is lost when a run ends.  Once the analyzer loop has
\* left its loop no id is queued for download or for analysis and the
\* download thread has no id in work; None is the last item of result_q and
\* is put when the pool is empty; the writer stops on an empty result_q
\* and has then handled one result for every queued id that did not fail.
C38_NothingLost ==
    /\ pipe.analyzer \in {"close", "done"} =>
          /\ \A i \in 1..Len(analyze_q) : analyze_q[i] = Stop
          /\ \A i \in 1..Len(download_q) : download_q[i] = Stop
          /\ pipe.download \notin {"run", "task_done"}
    /\ \A i \in 1..Len(result_q) : result_q[i] = StopResult => i = Len(result_q)
    /\ pipe.analyzer = "done" => pool = <<>>
    /\ pipe.writer = "done" => result_q = <<>>
    /\ pipe = Threads("done", "done", "done", "done", "done") =>
          analyze_bar.n = Len(video_ids) - Written(VideoIds) - Len(worker_failure_q)

\* C38: a run ended whose two results the writer handled; the analyzer loop
\* left on its timeout and the None of run_pipeline stayed in analyze_q
C38_Witness ==
    /\ pipe = Threads("done", "done", "done", "done", "done")
    /\ analyze_bar.n = 2
    /\ analyze_q = <<Stop>>

\* C38: a run ended whose analyzer loop left on None, after a result and a
\* failure in the pool
C38_WitnessStop ==
    /\ pipe = Threads("done", "done", "done", "done", "done")
    /\ analyze_bar.n = 1
    /\ Len(worker_failure_q) = 1
    /\ analyze_q = <<>>

\* C37: whenever get_status and is_ready report ready = true, the state is
\* 'Ready' and the predictor is loaded.
C37_ReadyMeansLoaded ==
    (get_status.ready \/ is_ready.items[1]) =>
        (get_status.state = State("Ready") /\ _predictor.loaded)

\* C37: the state 'Ready' is reported with ready = true and a loaded predictor
C37_ReadyStateIsReady ==
    get_status.state = State("Ready") => (get_status.ready /\ _predictor.loaded)

\* the token verifies and has the payload of create_access_token
MintedAccess(token) ==
    /\ token # NoToken
    /\ token.signature = Sign(token.payload, JWT_SECRET)
    /\ token.payload.username # "-"

\* the token verifies and has the payload of create_refresh_token, the
\* user_id only
MintedRefresh(token) ==
    /\ token # NoToken
    /\ token.signature = Sign(token.payload, JWT_SECRET)
    /\ token.payload.username = "-"

\* C36, require_token: a request whose access_token cookie holds a token
\* of create_refresh_token is answered 401.
C36_AccessRole ==
    MintedRefresh(decoded.token) => decoded.answer.status = 401

\* C36, refresh_access_token: a refresh_token cookie that holds a token of
\* create_access_token is answered 401.
C36_RefreshRole ==
    [][(Refreshed /\ MintedAccess(refresh_token)) => authResponse'.status = 401]_vars

\* C36, the lifetime: a request is accepted only within the lifetime of an
\* access token after the last login or refresh.
C36_AccessLifetime ==
    decoded.answer.status = 200 => decoded.at < decoded.issued.at + Lifetime

\* C36: tokens are accepted only in the role they were minted for, so
\* that access never outlives the access-token lifetime without a refresh.
C36_OwnRole == []C36_AccessRole /\ C36_RefreshRole /\ []C36_AccessLifetime

\* C35: a successful add_track_to_end makes the new row the last row of
\* every list get_tracks can return, a successful add_track_to_start the
\* first, and rows that were in the playlist in one order stay in it.
C35_EndsKeepOrder ==
    [][LET r == response'
           old == PlaylistRows(playlist_track, r.playlist_id)
           kept(a) == RowOf(playlist_track', a.playlist_track_id)
       IN  (/\ rowIds' = rowIds + 1
            /\ Called(r, "add_track_to_end") \/ Called(r, "add_track_to_start"))
           => /\ \A tracks \in get_tracks(playlist_track', r.playlist_id) :
                    tracks[IF r.call = "add_track_to_end" THEN Len(tracks) ELSE 1]
                          .playlist_track_id = r.id
              /\ \A a, b \in old : Precedes(a, b) => Precedes(kept(a), kept(b))]_vars

\* C35 witness: a track was put at the start of a playlist of two rows
\* whose first sort key was zero, negative or below twice the minimum gap:
\* the rows were rebalanced and the new row has half the first key
C35_Witness ==
    /\ Called(response, "add_track_to_start")
    /\ Cardinality(PlaylistRows(playlist_track, response.playlist_id)) = 3
    /\ \E r \in playlist_track :
          /\ r.playlist_track_id < response.id
          /\ r.youtube_track_id = "y1"
          /\ r.sort_key = Dec(2000)
    /\ response.request.position = "start"
    /\ RowOf(playlist_track, response.id).sort_key = Dec(500)

\* C35, a playlist with a last key next to the limit: the track put at
\* its end follows a rebalance
C35_WitnessEnd ==
    /\ Called(response, "add_track_to_end")
    /\ Cardinality(PlaylistRows(playlist_track, response.playlist_id)) = 3
    /\ RowOf(playlist_track, response.id).sort_key = Dec(3000)
    /\ response.id = 3

\* connections c and d served the same call for the same playlist, each
\* reading before the other inserted, and both inserted a row
Interleaved(c, d) ==
    /\ c # d
    /\ adding[c].id # 0 /\ adding[d].id # 0
    /\ adding[c].call = adding[d].call
    /\ adding[c].playlist_id = adding[d].playlist_id
    /\ adding[c].seen < adding[d].id
    /\ adding[d].seen < adding[c].id

\* C34: two interleaved add_track_to_end (or add_track_to_start) calls on
\* one playlist, each reading the last (first) sort key before the other
\* inserts, give their rows distinct sort keys.
C34_InterleavedDistinct ==
    \A c, d \in Connections :
        Interleaved(c, d) =>
            RowOf(playlist_track, adding[c].id).sort_key
               # RowOf(playlist_track, adding[d].id).sort_key

\* C34: calls served one after the other give their rows distinct keys
C34_SerialDistinct ==
    \A c, d \in Connections :
        (/\ c # d
         /\ adding[c].id # 0 /\ adding[d].id # 0
         /\ adding[c].id <= adding[d].seen)
        => RowOf(playlist_track, adding[c].id).sort_key
              # RowOf(playlist_track, adding[d].id).sort_key

\* C31: a get of an enabled handler for a key that was set and has not
\* expired returns the value that was set, of the same type, and does not
\* raise.
C31_RoundTrip ==
    (cache_call.op = "get" /\ cache_db.enabled /\ cache_call.live) =>
        /\ cache_call.answer.raise = "-"
        /\ ~cache_call.answer.none
        /\ cache_call.answer.value = cache_call.value

\* C31, lists, dicts and numbers: they come back equal
C31_StructuresAndNumbers ==
    (/\ cache_call.op = "get" /\ cache_db.enabled /\ cache_call.live
     /\ cache_call.value.type \in {"list", "dict", "int", "float"})
    => /\ ~cache_call.answer.none
       /\ cache_call.answer.value = cache_call.value

\* C31: get does not raise, whatever bytes are stored
C31_GetNeverRaises ==
    cache_call.op = "get" => cache_call.answer.raise = "-"

\* the positions (mix, i) of the dataset where a is followed by b
Positions(dataset, a, b) ==
    {mi \in (1..Len(dataset)) \X (1..MaxTracklist + 1) :
        /\ mi[2] < Len(dataset[mi[1]])
        /\ dataset[mi[1]][mi[2]] = a
        /\ dataset[mi[1]][mi[2] + 1] = b}

\* the lines of transitions.csv for the pair (a, b)
LinesOf(file, a, b) ==
    {i \in 2..Len(file.lines) :
        file.lines[i].from_track_id = a /\ file.lines[i].to_track_id = b}

\* C33, the file: after an export every pair (a, b) of ids that are not
\* null has one line with the number of positions where a is followed by b,
\* or no line if there is none; no line has a null id; the frequencies
\* do not rise from line to line.
C33_Counts ==
    transitions_csv.runs > 0 =>
        /\ transitions_csv.lines[1] = TransitionsHeader
        /\ \A a, b \in EntryIds \ {NullId} :
              LET n == Cardinality(Positions(dataset_json, a, b))
                  at == LinesOf(transitions_csv, a, b)
              IN  IF n = 0 THEN at = {}
                  ELSE /\ Cardinality(at) = 1
                       /\ \A i \in at : transitions_csv.lines[i].frequency = n
        /\ \A a \in EntryIds :
              LinesOf(transitions_csv, a, NullId) \cup LinesOf(transitions_csv, NullId, a) = {}
        /\ \A i \in 2..Len(transitions_csv.lines) - 1 :
              transitions_csv.lines[i].frequency >= transitions_csv.lines[i + 1].frequency

\* C33: the exported frequencies are the numbers of adjacent pairs of ids
\* that are not null, in falling order, and an export of the unchanged
\* dataset writes the file it found.
C33_Export ==
    /\ []C33_Counts
    /\ [][(transitions_csv.runs > 0 /\ transitions_csv'.runs > transitions_csv.runs)
             => transitions_csv'.lines = transitions_csv.lines]_vars

\* C33 witness: the exporter ran twice on a dataset whose first pair is the
\* rarer one and whose ids y1 and y2 are also separated by a null id
C33_Witness ==
    /\ transitions_csv.runs = 2
    /\ dataset_json = <<<<"y1", "y2", NullId>>, <<"y2", "y2", "y2">>>>
    /\ transitions_csv.lines =
          <<TransitionsHeader,
            [from_track_id |-> "y2", to_track_id |-> "y2", frequency |-> 2],
            [from_track_id |-> "y1", to_track_id |-> "y2", frequency |-> 1]>>

\* C33, a pair separated by an entry with a null id: it has no line
C33_WitnessNull ==
    /\ transitions_csv.runs = 1
    /\ dataset_json = <<<<"y1", NullId, "y2">>>>
    /\ transitions_csv.lines = <<TransitionsHeader>>

\* C32: no call of a store raises to the route that made it: a call that
\* fails returns false or nothing.
C32_NoStoreRaises == response.call # "-" => response.ret # "raise"

\* C32, the rows: a call of a store that raised or returned false left the
\* tables as they were.
C32_FailureKeepsRows ==
    [][(response' # response /\ response'.call # "-" /\ response'.ret \in {"raise", "false"})
          => UNCHANGED <<playlist, playlist_track, users, profiles>>]_vars
====
